---- MODULE Spec2Model ----
(***************************************************************************)
(* Model of the filesystem-backed events service of shurcooL/events        *)
(* (package fs): a ring of ringSize event slots kept in files, mirrored in *)
(* memory, written by Log and read by List.                                *)
(*                                                                         *)
(* The durable state is the user's directory with the ring file and the    *)
(* event-<idx> files.  The in-memory state is service.ring and             *)
(* service.events, guarded by service.mu.  Goroutines calling Log and List *)
(* are the processes of Procs; each has a program counter.                 *)
(***************************************************************************)
EXTENDS Integers, Sequences, FiniteSets, TLC

\* ringSize is 100 in schema.go; the model scales the capacity down.
ringSize == 2
\* Number of Log calls that may reach storage in one behaviour.
MaxLogs == 3
\* Number of process crashes in one behaviour.
MaxCrashes == 1

Procs == {"g1", "g2"}
NoProc == "none"

VARIABLES
    svc,        \* "none": no service constructed; "ready": NewService returned s
    fsDir,      \* whether the user's directory exists in the filesystem
    fsRing,     \* the ring file
    fsSlots,    \* the event-<idx> files
    ring,       \* service.ring
    events,     \* service.events
    mu,         \* holder of service.mu, or NoProc
    pc,         \* position of each goroutine
    ev,         \* Log's event argument
    nring,      \* Log's local ring
    idx,        \* Log's local idx
    ret,        \* value being returned by the call in progress
    authenticated, \* Log's result of s.users.GetAuthenticatedSpec
    closeFailed,   \* whether a deferred f.Close() of the Log in progress failed
    newRes,     \* outcome of the last NewService call
    hist,       \* history: events loaded at construction, then committed by Log
    loadedLen,  \* history: number of events loaded at construction
    nlogs,      \* history: Log calls that reached storage
    ncrash,     \* history: crashes so far
    handles,    \* number of file handles that are open
    root,       \* several stores: the files of the webdav.FileSystem, by path
    stores,     \* several stores: the service value and the caller of each
    gh,         \* GitHub service: the fields of the service value
    poll,       \* GitHub service: the poll goroutine's position and locals
    lister,     \* GitHub service: position and locals of each List call
    heap,       \* GitHub service: the maps, by reference
    lastFetch   \* GitHub service, history: what fetchEvents returned

\* The variables of the store of one user, of several stores over one root,
\* and of the GitHub-backed service.
fsVars == <<svc, fsDir, fsRing, fsSlots, ring, events, mu, pc, ev, nring, idx,
            ret, authenticated, closeFailed, newRes, hist, loadedLen, nlogs,
            ncrash, handles>>
storesVars == <<root, stores>>
githubVars == <<gh, poll, lister, heap, lastFetch>>

vars == <<svc, fsDir, fsRing, fsSlots, ring, events, mu, pc, ev, nring, idx,
          ret, authenticated, closeFailed, newRes, hist, loadedLen, nlogs, ncrash,
          handles, root, stores, gh, poll, lister, heap, lastFetch>>

----------------------------------------------------------------------------
(* Users and events *)

UserSpec1 == [ID |-> 1, Domain |-> "example.org"]
UserSpec2 == [ID |-> 2, Domain |-> "example.org"]
UserSpecs == {UserSpec1, UserSpec2}

\* The user the service is constructed for (NewService's user argument).
user == [UserSpec |-> UserSpec1, Login |-> "gopher"]

\* A user value with the service's UserSpec and another Login, and a user
\* with another UserSpec.
userOtherLogin == [UserSpec |-> UserSpec1, Login |-> "gopher1"]
otherUser == [UserSpec |-> UserSpec2, Login |-> "gopher2"]

ZeroUser == [UserSpec |-> [ID |-> 0, Domain |-> ""], Login |-> ""]

\* A time.Time is an instant and a location; Location() is time.UTC or not.
Locations == {"UTC", "Local"}
ZeroTime == [t |-> 0, loc |-> "UTC"]

\* The payload types of event.Event, in the order of MarshalJSON's switch.
Variants == {"Issue", "Change", "IssueComment", "ChangeComment",
             "CommitComment", "Push", "Star", "Create", "Fork", "Delete",
             "Wiki"}

\* The values of state.Issue and state.Change, and one value outside them.
IssueStates  == {"state.IssueOpen", "state.IssueClosed"}
ChangeStates == {"state.ChangeOpen", "state.ChangeClosed", "state.ChangeMerged"}
InvalidState == "state(invalid)"

\* The content of a payload's other fields (strings, and slices of structs
\* of strings, where a nil slice and an empty one are the same sequence).
Datas == {"", "x"}

\* A payload is its Go type (variant), its state field when it has one, and
\* the content of its other fields.  "nil" is the nil interface, "other" a
\* value of a type that is none of the eleven.
Payload(v, st, d) == [variant |-> v, state |-> st, data |-> d]
NilPayload   == Payload("nil", "", "")
OtherPayload == Payload("other", "", "x")
StarPayload  == Payload("Star", "", "")

\* The payloads of the eleven types with valid state values.
Payloads ==
    {Payload(v, "", d) : v \in Variants \ {"IssueComment", "ChangeComment", "Star"},
                         d \in Datas}
    \cup {Payload("IssueComment", st, d) : st \in IssueStates, d \in Datas}
    \cup {Payload("ChangeComment", st, d) : st \in ChangeStates, d \in Datas}
    \cup {StarPayload}

Event(t, loc, actor) ==
    [Time |-> [t |-> t, loc |-> loc], Actor |-> actor,
     Container |-> "example.org/some-app", Payload |-> StarPayload]

\* The events callers pass to Log: two UTC events of the service's user, the
\* later one with the earlier Time as in mockEvents, a UTC event whose actor
\* has the same UserSpec and another Login, a UTC event of another user, and
\* non-UTC events of the service's user and of another user.
Events ==
    {Event(2, "UTC", user), Event(1, "UTC", user),
     Event(1, "UTC", userOtherLogin), Event(1, "UTC", otherUser),
     Event(1, "Local", user), Event(1, "Local", otherUser)}

ZeroEvent == [Time |-> ZeroTime, Actor |-> ZeroUser, Container |-> "", Payload |-> NilPayload]

----------------------------------------------------------------------------
(* Ring *)

ZeroRing == [Start |-> 0, Length |-> 0]

\* At counting from slot 0 whatever Start is.
AtFromZero(r, i) == i % ringSize

At(r, i) == (r.Start + i) % ringSize

\* ringNext with the eviction left out: a full ring keeps its Start.
ringNextNoEvict(r) ==
    LET r2 == IF r.Length < ringSize
              THEN [r EXCEPT !.Length = r.Length + 1]
              ELSE r
    IN  [ring |-> r2, idx |-> (r2.Start + r2.Length - 1) % ringSize]

\* ringNext with the index taken one past the newest element.
ringNextIdxOff(r) ==
    LET r2 == IF r.Length < ringSize
              THEN [r EXCEPT !.Length = r.Length + 1]
              ELSE [r EXCEPT !.Start = (r.Start + 1) % ringSize]
    IN  [ring |-> r2, idx |-> (r2.Start + r2.Length) % ringSize]

\* ringNext without the capacity test: Length grows with every element.
ringNextNoCap(r) ==
    LET r2 == [r EXCEPT !.Length = r.Length + 1]
    IN  [ring |-> r2, idx |-> (r2.Start + r2.Length - 1) % ringSize]

\* ringNext advancing Start with every element, full or not.
ringNextAdvanceStart(r) ==
    LET r2 == IF r.Length < ringSize
              THEN [r EXCEPT !.Length = r.Length + 1,
                             !.Start = (r.Start + 1) % ringSize]
              ELSE [r EXCEPT !.Start = (r.Start + 1) % ringSize]
    IN  [ring |-> r2, idx |-> (r2.Start + r2.Length - 1) % ringSize]

\* ringNext with the index not reduced modulo ringSize.
ringNextIdxNoMod(r) ==
    LET r2 == IF r.Length < ringSize
              THEN [r EXCEPT !.Length = r.Length + 1]
              ELSE [r EXCEPT !.Start = (r.Start + 1) % ringSize]
    IN  [ring |-> r2, idx |-> r2.Start + r2.Length - 1]

\* ringNext returning the index of the first element of the new ring.
ringNextIdxStart(r) ==
    LET r2 == IF r.Length < ringSize
              THEN [r EXCEPT !.Length = r.Length + 1]
              ELSE [r EXCEPT !.Start = (r.Start + 1) % ringSize]
    IN  [ring |-> r2, idx |-> r2.Start]

\* Next returns a copy of ring with the next element added, and its index.
ringNext(r) ==
    LET r2 == IF r.Length < ringSize
              THEN [r EXCEPT !.Length = r.Length + 1]
              ELSE [r EXCEPT !.Start = (r.Start + 1) % ringSize]
    IN  [ring |-> r2, idx |-> (r2.Start + r2.Length - 1) % ringSize]

----------------------------------------------------------------------------
(* On-disk representation *)

\* time.Time's JSON form is RFC 3339: the instant with the zone written as
\* "Z" for UTC and as a numeric offset otherwise.
marshalTime(tm) == [t |-> tm.t, zone |-> IF tm.loc = "UTC" THEN "Z" ELSE "+01:00"]
unmarshalTime(j) == [t |-> j.t, loc |-> IF j.zone = "Z" THEN "UTC" ELSE "Local"]

\* fromEvent: the actor is omitted, it is encoded in the file path.
fromEvent(e) == [Time |-> e.Time, Container |-> e.Container, Payload |-> e.Payload]

\* The zero eventDisk.
ZeroDisk == [Time |-> ZeroTime, Container |-> "", Payload |-> NilPayload]

\* A JSON payload: an object with the payload's fields, the literal null, a
\* value that is not an object ("malformed"), or no Payload key ("absent").
JSONPayload(lit, st, d) == [lit |-> lit, state |-> st, data |-> d]
NullPayload == JSONPayload("null", "", "")

\* MarshalJSON's switch: the type tag of each payload type.
TypeTag(v) ==
    CASE v = "Issue"         -> "issue"
      [] v = "Change"        -> "change"
      [] v = "IssueComment"  -> "issueComment"
      [] v = "ChangeComment" -> "changeComment"
      [] v = "CommitComment" -> "commitComment"
      [] v = "Push"          -> "push"
      [] v = "Star"          -> "star"
      [] v = "Create"        -> "create"
      [] v = "Fork"          -> "fork"
      [] v = "Delete"        -> "delete"
      [] v = "Wiki"          -> "wiki"
      [] OTHER               -> ""

\* UnmarshalJSON's switch: the payload type of each type tag.
TagVariant(tag) ==
    CASE tag = "issue"         -> "Issue"
      [] tag = "change"        -> "Change"
      [] tag = "issueComment"  -> "IssueComment"
      [] tag = "changeComment" -> "ChangeComment"
      [] tag = "commitComment" -> "CommitComment"
      [] tag = "push"          -> "Push"
      [] tag = "star"          -> "Star"
      [] tag = "create"        -> "Create"
      [] tag = "fork"          -> "Fork"
      [] tag = "delete"        -> "Delete"
      [] tag = "wiki"          -> "Wiki"
      [] OTHER                 -> "nil"

\* The switches of fromIssueComment and fromChangeComment: a state that is
\* no case of the switch leaves the string empty.
fromIssueState(st) ==
    CASE st = "state.IssueOpen"   -> "open"
      [] st = "state.IssueClosed" -> "closed"
      [] OTHER                    -> ""

fromChangeState(st) ==
    CASE st = "state.ChangeOpen"   -> "open"
      [] st = "state.ChangeClosed" -> "closed"
      [] st = "state.ChangeMerged" -> "merged"
      [] OTHER                     -> ""

\* The switches of issueComment.IssueComment and changeComment.ChangeComment.
toIssueState(tok) ==
    CASE tok = "open"   -> "state.IssueOpen"
      [] tok = "closed" -> "state.IssueClosed"
      [] OTHER          -> ""

\* toChangeState without the case "merged".
toChangeStateNoMerged(tok) ==
    CASE tok = "open"   -> "state.ChangeOpen"
      [] tok = "closed" -> "state.ChangeClosed"
      [] OTHER          -> ""

toChangeState(tok) ==
    CASE tok = "open"   -> "state.ChangeOpen"
      [] tok = "closed" -> "state.ChangeClosed"
      [] tok = "merged" -> "state.ChangeMerged"
      [] OTHER          -> ""

\* fromIssue ... fromWiki: the on-disk payload of a payload of a known type.
\* star has no fields.
fromPayload(p) ==
    JSONPayload("object",
                CASE p.variant = "IssueComment"  -> fromIssueState(p.state)
                  [] p.variant = "ChangeComment" -> fromChangeState(p.state)
                  [] OTHER                       -> "",
                IF p.variant = "Star" THEN "" ELSE p.data)

\* issue.Issue ... wiki.Wiki after json.Unmarshal(v.Payload, &p): the
\* payload of type v decoded from the JSON payload j (null decodes to the
\* zero value).
toPayload(v, j) ==
    IF j.lit = "null" THEN Payload(v, "", "")
    ELSE Payload(v,
                 CASE v = "IssueComment"  -> toIssueState(j.state)
                   [] v = "ChangeComment" -> toChangeState(j.state)
                   [] OTHER               -> "",
                 IF v = "Star" THEN "" ELSE j.data)

\* eventDisk.MarshalJSON: the payload's type selects the type tag; a payload
\* of no known type leaves the tag empty and the payload null.
MarshalJSON(d) ==
    [lit       |-> "object",
     Time      |-> marshalTime(d.Time),
     Container |-> d.Container,
     Type      |-> TypeTag(d.Payload.variant),
     Payload   |-> IF d.Payload.variant \in Variants
                   THEN fromPayload(d.Payload) ELSE NullPayload]

\* The JSON literal null in place of a record.
NullJSON == [MarshalJSON(ZeroDisk) EXCEPT !.lit = "null"]

\* UnmarshalJSON returning an error for a type tag it does not know.
UnmarshalJSONUnknownTagFails(j) ==
    IF j.lit = "null" THEN [err |-> FALSE, val |-> ZeroDisk]
    ELSE LET e == [Time      |-> unmarshalTime(j.Time),
                   Container |-> j.Container,
                   Payload   |-> NilPayload]
         IN  IF TagVariant(j.Type) \notin Variants
             THEN [err |-> TRUE, val |-> e]
             ELSE IF j.Payload.lit \in {"malformed", "absent"}
             THEN [err |-> TRUE, val |-> e]
             ELSE [err |-> FALSE,
                   val |-> [e EXCEPT !.Payload =
                               toPayload(TagVariant(j.Type), j.Payload)]]

\* eventDisk.UnmarshalJSON: null is ignored; otherwise the type tag selects
\* the payload decoder, whose error is returned; an unknown tag leaves the
\* payload nil.
UnmarshalJSON(j) ==
    IF j.lit = "null" THEN [err |-> FALSE, val |-> ZeroDisk]
    ELSE LET e == [Time      |-> unmarshalTime(j.Time),
                   Container |-> j.Container,
                   Payload   |-> NilPayload]
         IN  IF TagVariant(j.Type) \notin Variants
             THEN [err |-> FALSE, val |-> e]
             ELSE IF j.Payload.lit \in {"malformed", "absent"}
             THEN [err |-> TRUE, val |-> e]
             ELSE [err |-> FALSE,
                   val |-> [e EXCEPT !.Payload =
                               toPayload(TagVariant(j.Type), j.Payload)]]

\* diskEvent leaving the Actor zero.
diskEventZeroActor(d, actor) ==
    [Time |-> d.Time, Actor |-> ZeroUser, Container |-> d.Container, Payload |-> d.Payload]

\* eventDisk.Event: the actor is the one inferred from the file path.
diskEvent(d, actor) ==
    [Time |-> d.Time, Actor |-> actor, Container |-> d.Container, Payload |-> d.Payload]

ZeroJSON == MarshalJSON(fromEvent(ZeroEvent))

\* A file is absent, holds a complete JSON value ("ok"), holds content that
\* is not a complete JSON value, as a failed write leaves after O_TRUNC
\* ("corrupt"), or is known to hold no bytes at all ("empty").
AbsentSlot  == [st |-> "absent",  val |-> ZeroJSON]
CorruptSlot == [st |-> "corrupt", val |-> ZeroJSON]
EmptySlot   == [st |-> "empty",   val |-> ZeroJSON]
OkSlot(j)   == [st |-> "ok", val |-> j]

AbsentRing  == [st |-> "absent",  val |-> ZeroRing]
CorruptRing == [st |-> "corrupt", val |-> ZeroRing]
OkRing(r)   == [st |-> "ok", val |-> r]

Slots == 0..(ringSize - 1)

ZeroEvents == [i \in Slots |-> ZeroEvent]

----------------------------------------------------------------------------
(* load and List as functions of the state they read *)

\* The slots load reads for ring r: r.At(i) for i in [0, r.Length).
LiveSlots(r) == {At(r, i) : i \in 0..(r.Length - 1)}

\* jsonDecodeFile treating a file without content as the zero eventDisk.
jsonDecodeFileEmptyIsZero(sl) ==
    IF sl.st = "ok" THEN UnmarshalJSON(sl.val)
    ELSE IF sl.st = "empty" THEN [err |-> FALSE, val |-> ZeroDisk]
    ELSE [err |-> TRUE, val |-> ZeroDisk]

\* jsonDecodeFile of an event file into a new eventDisk: Open fails on a
\* file that does not exist, Decode fails with io.EOF on a file without
\* content and on content that is not one JSON value, and returns the error
\* of UnmarshalJSON.
jsonDecodeFile(sl) ==
    IF sl.st = "ok" THEN UnmarshalJSON(sl.val)
    ELSE [err |-> TRUE, val |-> ZeroDisk]

\* load taking a ring file that does not exist for a failure.
loadNotExistIsError(fring, fslots) ==
    LET r == IF fring.st = "ok" THEN fring.val ELSE ZeroRing
    IN  IF fring.st # "ok"
        THEN [err |-> TRUE, ring |-> ZeroRing, events |-> [i \in Slots |-> ZeroEvent]]
        ELSE IF \E i \in LiveSlots(r) : jsonDecodeFile(fslots[i]).err
        THEN [err |-> TRUE, ring |-> r, events |-> [i \in Slots |-> ZeroEvent]]
        ELSE [err |-> FALSE, ring |-> r,
              events |-> [i \in Slots |->
                            IF i \in LiveSlots(r)
                            THEN diskEvent(jsonDecodeFile(fslots[i]).val, user)
                            ELSE ZeroEvent]]

\* load going on after a slot that fails to decode, leaving its event zero.
loadSkipBadSlots(fring, fslots) ==
    LET r == IF fring.st = "ok" THEN fring.val ELSE ZeroRing
    IN  IF fring.st = "corrupt"
        THEN [err |-> TRUE, ring |-> ZeroRing, events |-> [i \in Slots |-> ZeroEvent]]
        ELSE [err |-> FALSE, ring |-> r,
              events |-> [i \in Slots |->
                            IF i \in LiveSlots(r) /\ ~jsonDecodeFile(fslots[i]).err
                            THEN diskEvent(jsonDecodeFile(fslots[i]).val, user)
                            ELSE ZeroEvent]]

\* service.load: the ring file (absent means the empty ring), then every slot
\* of the ring's range.  The result is the error flag and the loaded state.
load(fring, fslots) ==
    LET r == IF fring.st = "ok" THEN fring.val ELSE ZeroRing
    IN  IF fring.st = "corrupt"
        THEN [err |-> TRUE, ring |-> ZeroRing, events |-> [i \in Slots |-> ZeroEvent]]
        ELSE IF \E i \in LiveSlots(r) : jsonDecodeFile(fslots[i]).err
        THEN [err |-> TRUE, ring |-> r, events |-> [i \in Slots |-> ZeroEvent]]
        ELSE [err |-> FALSE, ring |-> r,
              events |-> [i \in Slots |->
                            IF i \in LiveSlots(r)
                            THEN diskEvent(jsonDecodeFile(fslots[i]).val, user)
                            ELSE ZeroEvent]]

\* ListOf ordering the live events by their Time, latest Time first.
ListOfByTime(r, evs) ==
    LET f == CHOOSE g \in Permutations(1..r.Length) :
                 \A a, b \in 1..r.Length :
                     a < b => evs[At(r, g[a] - 1)].Time.t >= evs[At(r, g[b] - 1)].Time.t
    IN  [k \in 1..r.Length |-> evs[At(r, f[k] - 1)]]

\* service.List's loop: s.events[s.ring.At(i)] for i from Length-1 down to 0.
ListOf(r, evs) == [k \in 1..r.Length |-> evs[At(r, r.Length - k)]]

----------------------------------------------------------------------------
(* Return values *)

NoRet        == [kind |-> "none", list |-> <<>>]
RetNil       == [kind |-> "nil", list |-> <<>>]
RetErr(k)    == [kind |-> k, list |-> <<>>]
RetList(l)   == [kind |-> "list", list |-> l]

ErrUTC        == "event.Time time zone must be UTC"
ErrAuth       == "GetAuthenticatedSpec error"
ErrPermission == "os.ErrPermission"
ErrIO         == "filesystem error"

\* Outcomes of s.users.GetAuthenticatedSpec: an error, or a user spec.
AuthResults == {[err |-> TRUE, spec |-> ZeroUser.UserSpec]}
               \cup {[err |-> FALSE, spec |-> u] : u \in UserSpecs}

\* The authenticated variable of a Log that returned before the call of
\* GetAuthenticatedSpec, and of one that made the call with result auth.
NotCalled == [called |-> FALSE, err |-> FALSE, spec |-> ZeroUser.UserSpec]
Called(auth) == [called |-> TRUE, err |-> auth.err, spec |-> auth.spec]

\* Outcomes of jsonEncodeFileWithMkdirAll: the first OpenFile fails with an
\* error other than not-exist, MkdirAll fails, the second OpenFile fails,
\* Encode fails after the file was opened (and truncated), the deferred
\* f.Close() fails after Encode succeeded, or all succeed.
SlotWriteOutcomes == {"openErr", "mkdirErr", "reopenErr", "encodeErr", "closeErr", "ok"}

\* Outcomes of jsonEncodeFile.
RingWriteOutcomes == {"openErr", "encodeErr", "closeErr", "ok"}

----------------------------------------------------------------------------
(* File handles *)

\* jsonEncodeFile closing f only after Encode returned nil.
encodeHandlesCloseOnSuccess(out) ==
    LET opened == IF out \in {"encodeErr", "closeErr", "ok"} THEN 1 ELSE 0
        closed == IF out \in {"closeErr", "ok"} THEN 1 ELSE 0
    IN  opened - closed

\* The handles jsonEncodeFile and jsonEncodeFileWithMkdirAll leave open when
\* they return with outcome out: the one of the OpenFile that succeeded, less
\* the one the deferred f.Close() gives back, which runs on every return
\* that follows the defer statement (a Close that fails gives it back too).
encodeHandles(out) ==
    LET opened == IF out \in {"encodeErr", "closeErr", "ok"} THEN 1 ELSE 0
        closed == IF out \in {"encodeErr", "closeErr", "ok"} THEN 1 ELSE 0
    IN  opened - closed

\* The handles jsonDecodeFile leaves open when it returns: Open fails on a
\* file that does not exist, and the deferred f.Close() follows every Open.
decodeHandles(f) ==
    LET opened == IF f.st = "absent" THEN 0 ELSE 1
        closed == IF f.st = "absent" THEN 0 ELSE 1
    IN  opened - closed

\* The handles left open by load's loop from position i on: the loop ends at
\* the first slot that fails to decode.
RECURSIVE slotHandles(_, _, _)
slotHandles(r, fslots, i) ==
    IF i >= r.Length THEN 0
    ELSE decodeHandles(fslots[At(r, i)])
         + (IF jsonDecodeFile(fslots[At(r, i)]).err THEN 0
            ELSE slotHandles(r, fslots, i + 1))

\* The handles load leaves open: the ring file, then the slots.
loadHandles(fring, fslots) ==
    decodeHandles(fring)
    + (IF fring.st = "ok" THEN slotHandles(fring.val, fslots, 0) ELSE 0)

----------------------------------------------------------------------------
(* Several stores over one root: paths and values *)

\* The service values NewService returned over the same root, each with one
\* caller.
StoreIds == {"A", "B"}

\* A user with the ID of user and another Domain.
userOtherDomain ==
    [UserSpec |-> [ID |-> 1, Domain |-> "example.com"], Login |-> "gopher3"]

\* The first store is constructed for user, the second for one of these.
StoreUsers == {user, otherUser, userOtherDomain}

\* marshalUserSpec leaving the ID out.
marshalUserSpecNoID(us) == "@" \o us.Domain

\* fmt.Sprintf("%d@%s", us.ID, us.Domain)
marshalUserSpec(us) == ToString(us.ID) \o "@" \o us.Domain

eventsDir(us) == marshalUserSpec(us)

\* path.Join(eventsDir(user), "ring")
ringPath(us) == eventsDir(us) \o "/ring"

\* path.Join(eventsDir(user), fmt.Sprintf("event-%d", idx))
eventPath(us, i) == eventsDir(us) \o "/event-" \o ToString(i)

DirPaths  == {eventsDir(u.UserSpec) : u \in StoreUsers}
RingPaths == {ringPath(u.UserSpec) : u \in StoreUsers}
Paths == DirPaths \cup RingPaths
         \cup {eventPath(u.UserSpec, i) : u \in StoreUsers, i \in Slots}

AbsentDir == [st |-> "absent"]
Dir       == [st |-> "dir"]

\* The root without any file or directory.
EmptyRoot ==
    [f \in Paths |-> IF f \in DirPaths THEN AbsentDir
                     ELSE IF f \in RingPaths THEN AbsentRing
                     ELSE AbsentSlot]

\* The paths of the directory of us and of the files in it.
PathsOf(us) ==
    {eventsDir(us), ringPath(us)} \cup {eventPath(us, i) : i \in Slots}

\* A service value for user u before load, with its caller at rest.  loaded
\* and logged are history: the ring's Length after load and the number of
\* Log calls that returned nil; nlogs counts the Logs that reached storage.
ZeroStore(u) ==
    [user |-> u, svc |-> "none", ring |-> ZeroRing, events |-> ZeroEvents,
     mu |-> FALSE, pc |-> "idle", ev |-> ZeroEvent, nring |-> ZeroRing,
     idx |-> 0, ret |-> NoRet, loaded |-> 0, logged |-> 0, nlogs |-> 0]

\* Store A is for user and store B for u; nothing is in the root.
InitStoresOf(u) ==
    /\ root = EmptyRoot
    /\ stores = [i \in StoreIds |-> IF i = "A" THEN ZeroStore(user) ELSE ZeroStore(u)]

----------------------------------------------------------------------------
(* GitHub-backed service: values *)

RepoIDs == {"id1", "id2"}
SHAs    == {"c1", "c2"}
NoPR    == ""

\* A githubv3.Event: its type, the ID of its repository, and what its
\* payload mentions: the commits of a push or the commit of a commit
\* comment, and the pull request an issue comment is on (NoPR: none).
GHEvent(type, repo, shas, pr) ==
    [Type |-> type, Repo |-> repo, SHAs |-> shas, PR |-> pr]

\* What GitHub may return for the user's events, latest first.
Feeds ==
    {<<>>,
     <<GHEvent("PushEvent", "id1", <<"c1">>, NoPR)>>,
     <<GHEvent("CommitCommentEvent", "id2", <<"c2">>, NoPR),
       GHEvent("PushEvent", "id1", <<"c1">>, NoPR)>>,
     <<GHEvent("IssueCommentEvent", "id1", <<>>, "pr1"),
       GHEvent("PushEvent", "id1", <<"c1", "c2">>, NoPR)>>,
     <<GHEvent("WatchEvent", "id2", <<>>, NoPR),
       GHEvent("MemberEvent", "id2", <<>>, NoPR)>>}

NilError   == "nil"
FetchError == "fetchEvents error"

\* The goroutines that call List.
Listers == {"l1"}

\* References to maps: a nil map, and one for each of the two maps that the
\* service, poll and each List call can hold.
NoMap == 0
Refs == 1..(2 * (2 + Cardinality(Listers)))
EmptyMap == [k \in {} |-> ""]

\* The service value as NewService makes it.
ZeroService ==
    [events |-> <<>>, repos |-> NoMap, commits |-> NoMap, prs |-> EmptyMap,
     fetchError |-> NilError]

\* The locals of poll, and of a List call, that hold nothing.
ZeroLocals ==
    [events |-> <<>>, repos |-> NoMap, commits |-> NoMap, prs |-> EmptyMap,
     fetchError |-> NilError]

NoListRet == [events |-> <<>>, fetchError |-> NilError]

\* NewService returned s and started go s.poll(); no fetch has been made.
InitGitHub ==
    /\ gh = ZeroService
    /\ poll = [pc |-> "copy", loc |-> ZeroLocals]
    /\ lister = [p \in Listers |-> [pc |-> "idle", loc |-> ZeroLocals, ret |-> NoListRet]]
    /\ heap = [r \in Refs |-> EmptyMap]
    /\ lastFetch = [events |-> <<>>, fetchError |-> NilError]

----------------------------------------------------------------------------
(* Initial state: an empty filesystem and no service *)

Init ==
    /\ svc = "none"
    /\ fsDir = FALSE
    /\ fsRing = AbsentRing
    /\ fsSlots = [i \in Slots |-> AbsentSlot]
    /\ ring = ZeroRing
    /\ events = ZeroEvents
    /\ mu = NoProc
    /\ pc = [p \in Procs |-> "idle"]
    /\ ev = [p \in Procs |-> ZeroEvent]
    /\ nring = [p \in Procs |-> ZeroRing]
    /\ idx = [p \in Procs |-> 0]
    /\ ret = [p \in Procs |-> NoRet]
    /\ authenticated = [p \in Procs |-> NotCalled]
    /\ closeFailed = [p \in Procs |-> FALSE]
    /\ newRes = "none"
    /\ hist = <<>>
    /\ loadedLen = 0
    /\ nlogs = 0
    /\ ncrash = 0
    /\ handles = 0
    /\ InitStoresOf(user)
    /\ InitGitHub

Reverse(s) == [k \in 1..Len(s) |-> s[Len(s) + 1 - k]]

----------------------------------------------------------------------------
(* NewService *)

\* NewService writing the ring it loaded back to the ring file.
NewServiceWritesRing(readErr) ==
    /\ svc = "none"
    /\ LET l == load(fsRing, fsSlots)
       IN  IF readErr \/ l.err
           THEN /\ newRes' = IF readErr THEN "errRead" ELSE "errLoad"
                /\ UNCHANGED <<svc, ring, events, hist, loadedLen, fsRing>>
           ELSE /\ newRes' = "ok"
                /\ svc' = "ready"
                /\ ring' = l.ring
                /\ events' = l.events
                /\ hist' = Reverse(ListOf(l.ring, l.events))
                /\ loadedLen' = l.ring.Length
                /\ fsRing' = OkRing(l.ring)
    /\ UNCHANGED <<fsDir, fsSlots, mu, pc, ev, nring, idx, ret, nlogs, ncrash,
                   authenticated, closeFailed>>
    /\ handles' = handles + loadHandles(fsRing, fsSlots)
    /\ UNCHANGED <<storesVars, githubVars>>

\* NewService: s.load(); on error no service is returned.  readErr is a
\* filesystem read failing for a reason other than the content of the files
\* (newRes "errRead"); "errLoad" is a failure that load finds in the files.
NewService(readErr) ==
    /\ svc = "none"
    /\ LET l == load(fsRing, fsSlots)
       IN  IF readErr \/ l.err
           THEN /\ newRes' = IF readErr THEN "errRead" ELSE "errLoad"
                /\ UNCHANGED <<svc, ring, events, hist, loadedLen>>
           ELSE /\ newRes' = "ok"
                /\ svc' = "ready"
                /\ ring' = l.ring
                /\ events' = l.events
                /\ hist' = Reverse(ListOf(l.ring, l.events))
                /\ loadedLen' = l.ring.Length
    /\ UNCHANGED <<fsDir, fsRing, fsSlots, mu, pc, ev, nring, idx, ret, nlogs, ncrash,
                   authenticated, closeFailed>>
    /\ handles' = handles + loadHandles(fsRing, fsSlots)
    /\ UNCHANGED <<storesVars, githubVars>>

----------------------------------------------------------------------------
(* List *)

\* List: s.mu.Lock().
ListLock(p) ==
    /\ svc = "ready"
    /\ pc[p] = "idle"
    /\ mu = NoProc
    /\ mu' = p
    /\ pc' = [pc EXCEPT ![p] = "listCopy"]
    /\ UNCHANGED <<svc, fsDir, fsRing, fsSlots, ring, events, ev, nring, idx,
                   ret, hist, loadedLen, nlogs, ncrash,
                   authenticated, closeFailed, newRes>>
    /\ UNCHANGED <<handles, storesVars, githubVars>>

\* ListCopy reading the events back from the files.
ListCopyFromDisk(p) ==
    /\ pc[p] = "listCopy"
    /\ ret' = [ret EXCEPT ![p] =
                  IF load(fsRing, fsSlots).err THEN RetErr(ErrIO)
                  ELSE RetList(ListOf(load(fsRing, fsSlots).ring,
                                      load(fsRing, fsSlots).events))]
    /\ mu' = NoProc
    /\ pc' = [pc EXCEPT ![p] = "ret"]
    /\ UNCHANGED <<svc, fsDir, fsRing, fsSlots, ring, events, ev, nring, idx,
                   hist, loadedLen, nlogs, ncrash,
                   authenticated, closeFailed, newRes>>
    /\ UNCHANGED <<handles, storesVars, githubVars>>

\* List: the copy loop, then s.mu.Unlock().
ListCopy(p) ==
    /\ pc[p] = "listCopy"
    /\ ret' = [ret EXCEPT ![p] = RetList(ListOf(ring, events))]
    /\ mu' = NoProc
    /\ pc' = [pc EXCEPT ![p] = "ret"]
    /\ UNCHANGED <<svc, fsDir, fsRing, fsSlots, ring, events, ev, nring, idx,
                   hist, loadedLen, nlogs, ncrash,
                   authenticated, closeFailed, newRes>>
    /\ UNCHANGED <<handles, storesVars, githubVars>>

----------------------------------------------------------------------------
(* Log *)

\* LogChecks without the actor check.
LogChecksNoActor(e, auth) ==
    IF e.Time.loc # "UTC" THEN RetErr(ErrUTC)
    ELSE IF auth.err THEN RetErr(ErrAuth)
    ELSE IF auth.spec # user.UserSpec THEN RetErr(ErrPermission)
    ELSE NoRet

\* LogChecks with the actor check before the UTC check.
LogChecksActorFirst(e, auth) ==
    IF e.Actor.UserSpec # user.UserSpec THEN RetNil
    ELSE IF e.Time.loc # "UTC" THEN RetErr(ErrUTC)
    ELSE IF auth.err THEN RetErr(ErrAuth)
    ELSE IF auth.spec # user.UserSpec THEN RetErr(ErrPermission)
    ELSE NoRet

\* LogChecks without the permission check.
LogChecksNoPermission(e, auth) ==
    IF e.Time.loc # "UTC" THEN RetErr(ErrUTC)
    ELSE IF e.Actor.UserSpec # user.UserSpec THEN RetNil
    ELSE IF auth.err THEN RetErr(ErrAuth)
    ELSE NoRet

\* LogChecks without the UTC check.
LogChecksNoUTC(e, auth) ==
    IF e.Actor.UserSpec # user.UserSpec THEN RetNil
    ELSE IF auth.err THEN RetErr(ErrAuth)
    ELSE IF auth.spec # user.UserSpec THEN RetErr(ErrPermission)
    ELSE NoRet

\* Log's checks before s.mu.Lock(), in the order of the code: the UTC check,
\* the actor check, the authentication and the permission check.  The result
\* is the value Log returns there, or NoRet when Log goes on to storage.
LogChecks(e, auth) ==
    IF e.Time.loc # "UTC" THEN RetErr(ErrUTC)
    ELSE IF e.Actor.UserSpec # user.UserSpec THEN RetNil
    ELSE IF auth.err THEN RetErr(ErrAuth)
    ELSE IF auth.spec # user.UserSpec THEN RetErr(ErrPermission)
    ELSE NoRet

\* Log is called with event e, up to s.mu.Lock().
LogCall(p, e, auth) ==
    /\ svc = "ready"
    /\ pc[p] = "idle"
    /\ ev' = [ev EXCEPT ![p] = e]
    /\ authenticated' = [authenticated EXCEPT ![p] =
           IF e.Time.loc = "UTC" /\ e.Actor.UserSpec = user.UserSpec
           THEN Called(auth) ELSE NotCalled]
    /\ IF LogChecks(e, auth) # NoRet
       THEN /\ ret' = [ret EXCEPT ![p] = LogChecks(e, auth)]
            /\ pc' = [pc EXCEPT ![p] = "ret"]
            /\ UNCHANGED nlogs
       ELSE /\ nlogs < MaxLogs
            /\ nlogs' = nlogs + 1
            /\ pc' = [pc EXCEPT ![p] = "lock"]
            /\ UNCHANGED ret
    /\ UNCHANGED <<svc, fsDir, fsRing, fsSlots, ring, events, mu, nring, idx,
                   hist, loadedLen, ncrash, closeFailed, newRes>>
    /\ UNCHANGED <<handles, storesVars, githubVars>>

\* LogLock entering without waiting for the mutex.
LogLockNoMutex(p) ==
    /\ pc[p] = "lock"
    /\ mu' = p
    /\ nring' = [nring EXCEPT ![p] = ringNext(ring).ring]
    /\ idx' = [idx EXCEPT ![p] = ringNext(ring).idx]
    /\ pc' = [pc EXCEPT ![p] = "writeEvent"]
    /\ UNCHANGED <<svc, fsDir, fsRing, fsSlots, ring, events, ev, ret,
                   hist, loadedLen, nlogs, ncrash,
                   authenticated, closeFailed, newRes>>
    /\ UNCHANGED <<handles, storesVars, githubVars>>

\* LogLock advancing s.ring in place, before the writes.
LogLockAdvanceEarly(p) ==
    /\ pc[p] = "lock"
    /\ mu = NoProc
    /\ mu' = p
    /\ ring' = ringNext(ring).ring
    /\ nring' = [nring EXCEPT ![p] = ringNext(ring).ring]
    /\ idx' = [idx EXCEPT ![p] = ringNext(ring).idx]
    /\ pc' = [pc EXCEPT ![p] = "writeEvent"]
    /\ UNCHANGED <<svc, fsDir, fsRing, fsSlots, events, ev, ret,
                   hist, loadedLen, nlogs, ncrash,
                   authenticated, closeFailed, newRes>>
    /\ UNCHANGED <<handles, storesVars, githubVars>>

\* Log: s.mu.Lock() and ring, idx := s.ring.Next().
LogLock(p) ==
    /\ pc[p] = "lock"
    /\ mu = NoProc
    /\ mu' = p
    /\ nring' = [nring EXCEPT ![p] = ringNext(ring).ring]
    /\ idx' = [idx EXCEPT ![p] = ringNext(ring).idx]
    /\ pc' = [pc EXCEPT ![p] = "writeEvent"]
    /\ UNCHANGED <<svc, fsDir, fsRing, fsSlots, ring, events, ev, ret,
                   hist, loadedLen, nlogs, ncrash,
                   authenticated, closeFailed, newRes>>
    /\ UNCHANGED <<handles, storesVars, githubVars>>

\* LogFail returning err with the mutex still locked.
LogFailKeepLock(p) ==
    /\ UNCHANGED mu
    /\ ret' = [ret EXCEPT ![p] = RetErr(ErrIO)]
    /\ pc' = [pc EXCEPT ![p] = "ret"]
    /\ ev' = [ev EXCEPT ![p] = ZeroEvent]
    /\ nring' = [nring EXCEPT ![p] = ZeroRing]
    /\ idx' = [idx EXCEPT ![p] = 0]
    /\ UNCHANGED closeFailed

\* The deferred s.mu.Unlock() and the return of err.
LogFail(p) ==
    /\ mu' = NoProc
    /\ ret' = [ret EXCEPT ![p] = RetErr(ErrIO)]
    /\ pc' = [pc EXCEPT ![p] = "ret"]
    /\ ev' = [ev EXCEPT ![p] = ZeroEvent]
    /\ nring' = [nring EXCEPT ![p] = ZeroRing]
    /\ idx' = [idx EXCEPT ![p] = 0]
    /\ UNCHANGED closeFailed

\* LogWriteEvent writing the ring file together with the event file.
LogWriteEventRingFirst(p, out) ==
    /\ pc[p] = "writeEvent"
    /\ out \in {"mkdirErr", "reopenErr"} => ~fsDir
    /\ CASE out \in {"ok", "closeErr"} ->
              /\ closeFailed' = [closeFailed EXCEPT ![p] = @ \/ out = "closeErr"]
              /\ fsDir' = TRUE
              /\ fsRing' = OkRing(nring[p])
              /\ fsSlots' = [fsSlots EXCEPT ![idx[p]] = OkSlot(MarshalJSON(fromEvent(ev[p])))]
              /\ pc' = [pc EXCEPT ![p] = "writeRing"]
              /\ UNCHANGED <<mu, ret, ev, nring, idx>>
         [] out = "encodeErr" ->
              /\ fsDir' = TRUE
              /\ fsSlots' = [fsSlots EXCEPT ![idx[p]] = CorruptSlot]
              /\ UNCHANGED fsRing
              /\ LogFail(p)
         [] out = "reopenErr" ->
              /\ fsDir' = TRUE
              /\ UNCHANGED <<fsSlots, fsRing>>
              /\ LogFail(p)
         [] out \in {"openErr", "mkdirErr"} ->
              /\ UNCHANGED <<fsDir, fsSlots, fsRing>>
              /\ LogFail(p)
    /\ UNCHANGED <<svc, ring, events, hist, loadedLen, nlogs, ncrash,
                   authenticated, newRes>>
    /\ handles' = handles + encodeHandles(out)
    /\ UNCHANGED <<storesVars, githubVars>>

\* LogWriteEvent advancing the in-memory ring although Encode failed.
LogWriteEventAdvanceOnErr(p, out) ==
    /\ pc[p] = "writeEvent"
    /\ out \in {"mkdirErr", "reopenErr"} => ~fsDir
    /\ CASE out \in {"ok", "closeErr"} ->
              /\ closeFailed' = [closeFailed EXCEPT ![p] = @ \/ out = "closeErr"]
              /\ fsDir' = TRUE
              /\ fsSlots' = [fsSlots EXCEPT ![idx[p]] = OkSlot(MarshalJSON(fromEvent(ev[p])))]
              /\ pc' = [pc EXCEPT ![p] = "writeRing"]
              /\ UNCHANGED <<mu, ret, ev, nring, idx, ring>>
         [] out = "encodeErr" ->
              /\ fsDir' = TRUE
              /\ fsSlots' = [fsSlots EXCEPT ![idx[p]] = CorruptSlot]
              /\ ring' = nring[p]
              /\ LogFail(p)
         [] out = "reopenErr" ->
              /\ fsDir' = TRUE
              /\ UNCHANGED <<fsSlots, ring>>
              /\ LogFail(p)
         [] out \in {"openErr", "mkdirErr"} ->
              /\ UNCHANGED <<fsDir, fsSlots, ring>>
              /\ LogFail(p)
    /\ UNCHANGED <<svc, fsRing, events, hist, loadedLen, nlogs, ncrash,
                   authenticated, newRes>>
    /\ handles' = handles + encodeHandles(out)
    /\ UNCHANGED <<storesVars, githubVars>>

\* LogWriteEvent going on to the ring file without writing the event file.
LogWriteEventSkip(p, out) ==
    /\ pc[p] = "writeEvent"
    /\ out \in {"mkdirErr", "reopenErr"} => ~fsDir
    /\ CASE out \in {"ok", "closeErr"} ->
              /\ closeFailed' = [closeFailed EXCEPT ![p] = @ \/ out = "closeErr"]
              /\ fsDir' = TRUE
              /\ UNCHANGED fsSlots
              /\ pc' = [pc EXCEPT ![p] = "writeRing"]
              /\ UNCHANGED <<mu, ret, ev, nring, idx>>
         [] out = "encodeErr" ->
              /\ fsDir' = TRUE
              /\ fsSlots' = [fsSlots EXCEPT ![idx[p]] = CorruptSlot]
              /\ LogFail(p)
         [] out = "reopenErr" ->
              /\ fsDir' = TRUE
              /\ UNCHANGED fsSlots
              /\ LogFail(p)
         [] out \in {"openErr", "mkdirErr"} ->
              /\ UNCHANGED <<fsDir, fsSlots>>
              /\ LogFail(p)
    /\ UNCHANGED <<svc, fsRing, ring, events, hist, loadedLen, nlogs, ncrash,
                   authenticated, newRes>>
    /\ handles' = handles + encodeHandles(out)
    /\ UNCHANGED <<storesVars, githubVars>>

\* Log: jsonEncodeFileWithMkdirAll(eventPath(idx), fromEvent(event)).
LogWriteEvent(p, out) ==
    /\ pc[p] = "writeEvent"
    /\ out \in {"mkdirErr", "reopenErr"} => ~fsDir
    /\ CASE out \in {"ok", "closeErr"} ->
              /\ closeFailed' = [closeFailed EXCEPT ![p] = @ \/ out = "closeErr"]
              /\ fsDir' = TRUE
              /\ fsSlots' = [fsSlots EXCEPT ![idx[p]] = OkSlot(MarshalJSON(fromEvent(ev[p])))]
              /\ pc' = [pc EXCEPT ![p] = "writeRing"]
              /\ UNCHANGED <<mu, ret, ev, nring, idx>>
         [] out = "encodeErr" ->
              /\ fsDir' = TRUE
              /\ fsSlots' = [fsSlots EXCEPT ![idx[p]] = CorruptSlot]
              /\ LogFail(p)
         [] out = "reopenErr" ->
              /\ fsDir' = TRUE
              /\ UNCHANGED fsSlots
              /\ LogFail(p)
         [] out \in {"openErr", "mkdirErr"} ->
              /\ UNCHANGED <<fsDir, fsSlots>>
              /\ LogFail(p)
    /\ UNCHANGED <<svc, fsRing, ring, events, hist, loadedLen, nlogs, ncrash,
                   authenticated, newRes>>
    /\ handles' = handles + encodeHandles(out)
    /\ UNCHANGED <<storesVars, githubVars>>

\* LogWriteRing committing to memory although Encode failed.
LogWriteRingCommitOnErr(p, out) ==
    /\ pc[p] = "writeRing"
    /\ ~fsDir => out = "openErr"
    /\ CASE out \in {"ok", "closeErr"} ->
              /\ closeFailed' = [closeFailed EXCEPT ![p] = @ \/ out = "closeErr"]
              /\ fsRing' = OkRing(nring[p])
              /\ pc' = [pc EXCEPT ![p] = "commit"]
              /\ UNCHANGED <<mu, ret, ev, nring, idx, ring, events>>
         [] out = "encodeErr" ->
              /\ fsRing' = CorruptRing
              /\ events' = [events EXCEPT ![idx[p]] = ev[p]]
              /\ ring' = nring[p]
              /\ LogFail(p)
         [] out = "openErr" ->
              /\ UNCHANGED <<fsRing, ring, events>>
              /\ LogFail(p)
    /\ UNCHANGED <<svc, fsDir, fsSlots, hist, loadedLen, nlogs, ncrash,
                   authenticated, newRes>>
    /\ handles' = handles + encodeHandles(out)
    /\ UNCHANGED <<storesVars, githubVars>>

\* LogWriteRing releasing the mutex once the ring file is written.
LogWriteRingUnlockEarly(p, out) ==
    /\ pc[p] = "writeRing"
    /\ ~fsDir => out = "openErr"
    /\ CASE out \in {"ok", "closeErr"} ->
              /\ closeFailed' = [closeFailed EXCEPT ![p] = @ \/ out = "closeErr"]
              /\ fsRing' = OkRing(nring[p])
              /\ pc' = [pc EXCEPT ![p] = "commit"]
              /\ mu' = NoProc
              /\ UNCHANGED <<ret, ev, nring, idx>>
         [] out = "encodeErr" ->
              /\ fsRing' = CorruptRing
              /\ LogFail(p)
         [] out = "openErr" ->
              /\ UNCHANGED fsRing
              /\ LogFail(p)
    /\ UNCHANGED <<svc, fsDir, fsSlots, ring, events, hist, loadedLen, nlogs, ncrash,
                   authenticated, newRes>>
    /\ handles' = handles + encodeHandles(out)
    /\ UNCHANGED <<storesVars, githubVars>>

\* Log: jsonEncodeFile(ringPath, ring).  OpenFile fails when the parent
\* directory does not exist.
LogWriteRing(p, out) ==
    /\ pc[p] = "writeRing"
    /\ ~fsDir => out = "openErr"
    /\ CASE out \in {"ok", "closeErr"} ->
              /\ closeFailed' = [closeFailed EXCEPT ![p] = @ \/ out = "closeErr"]
              /\ fsRing' = OkRing(nring[p])
              /\ pc' = [pc EXCEPT ![p] = "commit"]
              /\ UNCHANGED <<mu, ret, ev, nring, idx>>
         [] out = "encodeErr" ->
              /\ fsRing' = CorruptRing
              /\ LogFail(p)
         [] out = "openErr" ->
              /\ UNCHANGED fsRing
              /\ LogFail(p)
    /\ UNCHANGED <<svc, fsDir, fsSlots, ring, events, hist, loadedLen, nlogs, ncrash,
                   authenticated, newRes>>
    /\ handles' = handles + encodeHandles(out)
    /\ UNCHANGED <<storesVars, githubVars>>

\* Log: commit to memory, the deferred s.mu.Unlock() and return nil.
LogCommit(p) ==
    /\ pc[p] = "commit"
    /\ events' = [events EXCEPT ![idx[p]] = ev[p]]
    /\ ring' = nring[p]
    /\ hist' = Append(hist, ev[p])
    /\ mu' = NoProc
    /\ ret' = [ret EXCEPT ![p] = RetNil]
    /\ pc' = [pc EXCEPT ![p] = "ret"]
    /\ ev' = [ev EXCEPT ![p] = ZeroEvent]
    /\ nring' = [nring EXCEPT ![p] = ZeroRing]
    /\ idx' = [idx EXCEPT ![p] = 0]
    /\ UNCHANGED <<svc, fsDir, fsRing, fsSlots, loadedLen, nlogs, ncrash,
                   authenticated, closeFailed, newRes>>
    /\ UNCHANGED <<handles, storesVars, githubVars>>

\* The caller receives the return value of List or Log.
Return(p) ==
    /\ pc[p] = "ret"
    /\ pc' = [pc EXCEPT ![p] = "idle"]
    /\ ret' = [ret EXCEPT ![p] = NoRet]
    /\ ev' = [ev EXCEPT ![p] = ZeroEvent]
    /\ authenticated' = [authenticated EXCEPT ![p] = NotCalled]
    /\ closeFailed' = [closeFailed EXCEPT ![p] = FALSE]
    /\ UNCHANGED <<svc, fsDir, fsRing, fsSlots, ring, events, mu, nring, idx,
                   hist, loadedLen, nlogs, ncrash, newRes>>
    /\ UNCHANGED <<handles, storesVars, githubVars>>

----------------------------------------------------------------------------
(* Crash *)

\* The process stops at any point: the goroutines and the in-memory state
\* are gone, the files stay as they are.
Crash ==
    /\ svc = "ready"
    /\ ncrash < MaxCrashes
    /\ ncrash' = ncrash + 1
    /\ svc' = "none"
    /\ ring' = ZeroRing
    /\ events' = ZeroEvents
    /\ mu' = NoProc
    /\ pc' = [p \in Procs |-> "idle"]
    /\ ev' = [p \in Procs |-> ZeroEvent]
    /\ nring' = [p \in Procs |-> ZeroRing]
    /\ idx' = [p \in Procs |-> 0]
    /\ ret' = [p \in Procs |-> NoRet]
    /\ authenticated' = [p \in Procs |-> NotCalled]
    /\ closeFailed' = [p \in Procs |-> FALSE]
    /\ newRes' = "none"
    /\ hist' = <<>>
    /\ loadedLen' = 0
    /\ UNCHANGED <<fsDir, fsRing, fsSlots, nlogs>>
    /\ UNCHANGED <<handles, storesVars, githubVars>>

----------------------------------------------------------------------------

Next ==
    \/ \E readErr \in BOOLEAN : NewService(readErr)
    \/ \E p \in Procs : ListLock(p)
    \/ \E p \in Procs : ListCopy(p)
    \/ \E p \in Procs, e \in Events, auth \in AuthResults : LogCall(p, e, auth)
    \/ \E p \in Procs : LogLock(p)
    \/ \E p \in Procs, out \in SlotWriteOutcomes : LogWriteEvent(p, out)
    \/ \E p \in Procs, out \in RingWriteOutcomes : LogWriteRing(p, out)
    \/ \E p \in Procs : LogCommit(p)
    \/ \E p \in Procs : Return(p)
    \/ Crash

Spec == Init /\ [][Next]_vars

----------------------------------------------------------------------------
(* A store constructed over files that exist already *)

\* Events of the store's user with a payload of each type, with the nil
\* payload, a payload of another type, and comments with an invalid state.
EventsPre ==
    {[Event(1, "UTC", user) EXCEPT !.Payload = p] :
        p \in Payloads \cup {NilPayload, OtherPayload,
                             Payload("IssueComment", InvalidState, "x"),
                             Payload("ChangeComment", InvalidState, "x")}}

\* Records as another writer or an earlier version may have left them: one
\* with a type tag that is none of the eleven, the empty object, and one
\* with a known tag whose payload is not an object.
UnknownTagJSON ==
    [MarshalJSON(fromEvent(Event(1, "UTC", user)))
        EXCEPT !.Type = "unknown", !.Payload = JSONPayload("object", "", "x")]
EmptyObjectJSON ==
    [MarshalJSON(ZeroDisk) EXCEPT !.Payload = JSONPayload("absent", "", "")]
MalformedPayloadJSON ==
    [MarshalJSON(fromEvent(Event(1, "UTC", user)))
        EXCEPT !.Type = "issue", !.Payload = JSONPayload("malformed", "", "")]

\* The content of the one slot of the pre-existing ring.
PreSlots ==
    {OkSlot(NullJSON), EmptySlot, AbsentSlot, CorruptSlot,
     OkSlot(UnknownTagJSON), OkSlot(EmptyObjectJSON),
     OkSlot(MalformedPayloadJSON),
     OkSlot(MarshalJSON(fromEvent(Event(2, "UTC", user))))}

\* The files hold a ring of one element whose slot is any of PreSlots, or
\* nothing at all; one Log is left to be stored.
InitPre ==
    /\ svc = "none"
    /\ \/ /\ fsDir = TRUE
          /\ fsRing = OkRing([Start |-> 0, Length |-> 1])
          /\ \E sl \in PreSlots :
                fsSlots = [i \in Slots |-> IF i = 0 THEN sl ELSE AbsentSlot]
       \/ /\ fsDir = FALSE
          /\ fsRing = AbsentRing
          /\ fsSlots = [i \in Slots |-> AbsentSlot]
    /\ ring = ZeroRing
    /\ events = ZeroEvents
    /\ mu = NoProc
    /\ pc = [p \in Procs |-> "idle"]
    /\ ev = [p \in Procs |-> ZeroEvent]
    /\ nring = [p \in Procs |-> ZeroRing]
    /\ idx = [p \in Procs |-> 0]
    /\ ret = [p \in Procs |-> NoRet]
    /\ authenticated = [p \in Procs |-> NotCalled]
    /\ closeFailed = [p \in Procs |-> FALSE]
    /\ newRes = "none"
    /\ hist = <<>>
    /\ loadedLen = 0
    /\ nlogs = MaxLogs - 1
    /\ ncrash = 0
    /\ handles = 0
    /\ InitStoresOf(user)
    /\ InitGitHub

\* The operations of Next, with Log called by the store's user with the
\* events of EventsPre.
NextPre ==
    \/ \E readErr \in BOOLEAN : NewService(readErr)
    \/ \E p \in Procs : ListLock(p)
    \/ \E p \in Procs : ListCopy(p)
    \/ \E p \in Procs, e \in EventsPre :
          LogCall(p, e, [err |-> FALSE, spec |-> user.UserSpec])
    \/ \E p \in Procs : LogLock(p)
    \/ \E p \in Procs, out \in SlotWriteOutcomes : LogWriteEvent(p, out)
    \/ \E p \in Procs, out \in RingWriteOutcomes : LogWriteRing(p, out)
    \/ \E p \in Procs : LogCommit(p)
    \/ \E p \in Procs : Return(p)
    \/ Crash

SpecPre == InitPre /\ [][NextPre]_vars

----------------------------------------------------------------------------
(* A store all of whose writes succeed *)

\* The outcomes of a write after which Log goes on: every step succeeded, or
\* only the deferred f.Close() failed.
OkOutcomes == {"ok", "closeErr"}

\* The operations of Next without Crash, with every write of Log
\* succeeding, so that every Log that reaches storage returns nil.
NextOk ==
    \/ \E readErr \in BOOLEAN : NewService(readErr)
    \/ \E p \in Procs : ListLock(p)
    \/ \E p \in Procs : ListCopy(p)
    \/ \E p \in Procs, e \in Events, auth \in AuthResults : LogCall(p, e, auth)
    \/ \E p \in Procs : LogLock(p)
    \/ \E p \in Procs, out \in OkOutcomes : LogWriteEvent(p, out)
    \/ \E p \in Procs, out \in OkOutcomes : LogWriteRing(p, out)
    \/ \E p \in Procs : LogCommit(p)
    \/ \E p \in Procs : Return(p)

SpecOk == Init /\ [][NextOk]_vars

----------------------------------------------------------------------------
(* A store whose calls are scheduled fairly *)

\* The events passed to Log: one that Log stores and one that it rejects.
FairEvents == {Event(1, "UTC", user), Event(1, "Local", user)}

\* The operations of Next without Crash, with Log called with FairEvents.
NextFair ==
    \/ \E readErr \in BOOLEAN : NewService(readErr)
    \/ \E p \in Procs : ListLock(p)
    \/ \E p \in Procs : ListCopy(p)
    \/ \E p \in Procs, e \in FairEvents, auth \in AuthResults : LogCall(p, e, auth)
    \/ \E p \in Procs : LogLock(p)
    \/ \E p \in Procs, out \in SlotWriteOutcomes : LogWriteEvent(p, out)
    \/ \E p \in Procs, out \in RingWriteOutcomes : LogWriteRing(p, out)
    \/ \E p \in Procs : LogCommit(p)
    \/ \E p \in Procs : Return(p)

\* A goroutine that can take a step takes one (the filesystem calls return),
\* and a goroutine waiting in s.mu.Lock() gets the mutex if it is free again
\* and again: sync.Mutex hands the mutex to a waiter that is starving.
Fairness ==
    \A p \in Procs :
        /\ SF_vars(LogLock(p))
        /\ WF_vars(ListCopy(p))
        /\ WF_vars(\E out \in SlotWriteOutcomes : LogWriteEvent(p, out))
        /\ WF_vars(\E out \in RingWriteOutcomes : LogWriteRing(p, out))
        /\ WF_vars(LogCommit(p))

SpecFair == Init /\ [][NextFair]_vars /\ Fairness

----------------------------------------------------------------------------
(* A store constructed over a ring file of any content *)

\* The Start and Length values a ring file may hold: those of the ring's
\* range, and one beyond it.
AnyRings == [Start : 0..ringSize, Length : 0..(ringSize + 1)]

\* The directory holds a ring file with any of AnyRings and an event in
\* every slot; one Log is left to be stored.
InitAnyRing ==
    /\ svc = "none"
    /\ fsDir = TRUE
    /\ \E r \in AnyRings : fsRing = OkRing(r)
    /\ fsSlots = [i \in Slots |-> OkSlot(MarshalJSON(fromEvent(Event(i + 1, "UTC", user))))]
    /\ ring = ZeroRing
    /\ events = ZeroEvents
    /\ mu = NoProc
    /\ pc = [p \in Procs |-> "idle"]
    /\ ev = [p \in Procs |-> ZeroEvent]
    /\ nring = [p \in Procs |-> ZeroRing]
    /\ idx = [p \in Procs |-> 0]
    /\ ret = [p \in Procs |-> NoRet]
    /\ authenticated = [p \in Procs |-> NotCalled]
    /\ closeFailed = [p \in Procs |-> FALSE]
    /\ newRes = "none"
    /\ hist = <<>>
    /\ loadedLen = 0
    /\ nlogs = MaxLogs - 1
    /\ ncrash = 0
    /\ handles = 0
    /\ InitStoresOf(user)
    /\ InitGitHub

SpecAnyRing == InitAnyRing /\ [][NextPre]_vars

----------------------------------------------------------------------------
(* Several stores over one root: NewService and Log of each store *)

\* The files that the store of user u reads and writes, as load takes them.
ringFile(fs, u) == fs[ringPath(u.UserSpec)]
slotFiles(fs, u) == [i \in Slots |-> fs[eventPath(u.UserSpec, i)]]

\* s.load() of the store of user u: event.Event(s.user) gives every loaded
\* event the Actor u.
storeLoad(fs, u) ==
    LET l == load(ringFile(fs, u), slotFiles(fs, u))
    IN  [l EXCEPT !.events =
            [i \in Slots |-> IF ~l.err /\ i \in LiveSlots(l.ring)
                             THEN [l.events[i] EXCEPT !.Actor = u]
                             ELSE ZeroEvent]]

\* What List of store s returns, and what List of a store constructed for
\* user u over fs returns (the empty list stands in when load fails).
StoreList(s) == ListOf(s.ring, s.events)
StoreLoadedList(fs, u) ==
    IF storeLoad(fs, u).err THEN <<>>
    ELSE ListOf(storeLoad(fs, u).ring, storeLoad(fs, u).events)

\* The events passed to Log of a store: two events of each of StoreUsers.
StoreEvents == {Event(t, "UTC", u) : t \in {1, 2}, u \in StoreUsers}

\* Log calls of all stores that reached storage.
StoreLogs == stores["A"].nlogs + stores["B"].nlogs

\* NewService for store i: on an error of load no service is returned and
\* nothing has changed.
StoreNewService(i) ==
    /\ stores[i].svc = "none"
    /\ LET l == storeLoad(root, stores[i].user)
       IN  /\ ~l.err
           /\ stores' = [stores EXCEPT ![i].svc = "ready",
                                       ![i].ring = l.ring,
                                       ![i].events = l.events,
                                       ![i].loaded = l.ring.Length]
    /\ UNCHANGED <<root, fsVars, githubVars>>

\* Log of store i is called with event e by the store's user, up to
\* s.mu.Lock(): an event of another actor is dropped.
StoreLogCall(i, e) ==
    /\ stores[i].svc = "ready"
    /\ stores[i].pc = "idle"
    /\ IF e.Actor.UserSpec # stores[i].user.UserSpec
       THEN stores' = [stores EXCEPT ![i].pc = "ret", ![i].ret = RetNil]
       ELSE /\ StoreLogs < MaxLogs
            /\ stores' = [stores EXCEPT ![i].pc = "lock", ![i].ev = e,
                                        ![i].nlogs = @ + 1]
    /\ UNCHANGED <<root, fsVars, githubVars>>

\* StoreLogLock taking the ring to advance from the ring file.
StoreLogLockFromFile(i) ==
    /\ stores[i].pc = "lock"
    /\ ~stores[i].mu
    /\ LET f == ringFile(root, stores[i].user)
           r == IF f.st = "ok" THEN f.val ELSE stores[i].ring
       IN  stores' = [stores EXCEPT ![i].mu = TRUE,
                                    ![i].nring = ringNext(r).ring,
                                    ![i].idx = ringNext(r).idx,
                                    ![i].pc = "writeEvent"]
    /\ UNCHANGED <<root, fsVars, githubVars>>

\* Log: s.mu.Lock(), the mutex of this service value, and s.ring.Next().
StoreLogLock(i) ==
    /\ stores[i].pc = "lock"
    /\ ~stores[i].mu
    /\ stores' = [stores EXCEPT ![i].mu = TRUE,
                                ![i].nring = ringNext(stores[i].ring).ring,
                                ![i].idx = ringNext(stores[i].ring).idx,
                                ![i].pc = "writeEvent"]
    /\ UNCHANGED <<root, fsVars, githubVars>>

\* The store after the deferred s.mu.Unlock() and the return of err.
StoreLogFail(s) ==
    [s EXCEPT !.mu = FALSE, !.ret = RetErr(ErrIO), !.pc = "ret",
              !.ev = ZeroEvent, !.nring = ZeroRing, !.idx = 0]

\* Log: jsonEncodeFileWithMkdirAll(eventPath(idx), fromEvent(event)) on the
\* root.
StoreLogWriteEvent(i, out) ==
    LET s == stores[i]
        dir == eventsDir(s.user.UserSpec)
        file == eventPath(s.user.UserSpec, s.idx)
    IN  /\ s.pc = "writeEvent"
        /\ out \in {"mkdirErr", "reopenErr"} => root[dir] = AbsentDir
        /\ CASE out \in {"ok", "closeErr"} ->
                  /\ root' = [root EXCEPT ![dir] = Dir,
                                          ![file] = OkSlot(MarshalJSON(fromEvent(s.ev)))]
                  /\ stores' = [stores EXCEPT ![i].pc = "writeRing"]
             [] out = "encodeErr" ->
                  /\ root' = [root EXCEPT ![dir] = Dir, ![file] = CorruptSlot]
                  /\ stores' = [stores EXCEPT ![i] = StoreLogFail(s)]
             [] out = "reopenErr" ->
                  /\ root' = [root EXCEPT ![dir] = Dir]
                  /\ stores' = [stores EXCEPT ![i] = StoreLogFail(s)]
             [] out \in {"openErr", "mkdirErr"} ->
                  /\ UNCHANGED root
                  /\ stores' = [stores EXCEPT ![i] = StoreLogFail(s)]
        /\ UNCHANGED <<fsVars, githubVars>>

\* Log: jsonEncodeFile(ringPath, ring) on the root.
StoreLogWriteRing(i, out) ==
    LET s == stores[i]
        dir == eventsDir(s.user.UserSpec)
        file == ringPath(s.user.UserSpec)
    IN  /\ s.pc = "writeRing"
        /\ root[dir] = AbsentDir => out = "openErr"
        /\ CASE out \in {"ok", "closeErr"} ->
                  /\ root' = [root EXCEPT ![file] = OkRing(s.nring)]
                  /\ stores' = [stores EXCEPT ![i].pc = "commit"]
             [] out = "encodeErr" ->
                  /\ root' = [root EXCEPT ![file] = CorruptRing]
                  /\ stores' = [stores EXCEPT ![i] = StoreLogFail(s)]
             [] out = "openErr" ->
                  /\ UNCHANGED root
                  /\ stores' = [stores EXCEPT ![i] = StoreLogFail(s)]
        /\ UNCHANGED <<fsVars, githubVars>>

\* Log: commit to memory, the deferred s.mu.Unlock() and return nil.
StoreLogCommit(i) ==
    LET s == stores[i]
    IN  /\ s.pc = "commit"
        /\ stores' = [stores EXCEPT ![i] =
               [s EXCEPT !.events = [s.events EXCEPT ![s.idx] = s.ev],
                         !.ring = s.nring, !.mu = FALSE, !.ret = RetNil,
                         !.pc = "ret", !.ev = ZeroEvent, !.nring = ZeroRing,
                         !.idx = 0, !.logged = @ + 1]]
        /\ UNCHANGED <<root, fsVars, githubVars>>

\* The caller of store i receives Log's return value.
StoreReturn(i) ==
    /\ stores[i].pc = "ret"
    /\ stores' = [stores EXCEPT ![i].pc = "idle", ![i].ret = NoRet]
    /\ UNCHANGED <<root, fsVars, githubVars>>

\* The single store's variables at rest, an empty root, store A for user
\* and store B for any of StoreUsers.
InitStores ==
    /\ svc = "none"
    /\ fsDir = FALSE
    /\ fsRing = AbsentRing
    /\ fsSlots = [i \in Slots |-> AbsentSlot]
    /\ ring = ZeroRing
    /\ events = ZeroEvents
    /\ mu = NoProc
    /\ pc = [p \in Procs |-> "idle"]
    /\ ev = [p \in Procs |-> ZeroEvent]
    /\ nring = [p \in Procs |-> ZeroRing]
    /\ idx = [p \in Procs |-> 0]
    /\ ret = [p \in Procs |-> NoRet]
    /\ authenticated = [p \in Procs |-> NotCalled]
    /\ closeFailed = [p \in Procs |-> FALSE]
    /\ newRes = "none"
    /\ hist = <<>>
    /\ loadedLen = 0
    /\ nlogs = 0
    /\ ncrash = 0
    /\ handles = 0
    /\ \E u \in StoreUsers : InitStoresOf(u)
    /\ InitGitHub

NextStores ==
    \/ \E i \in StoreIds : StoreNewService(i)
    \/ \E i \in StoreIds, e \in StoreEvents : StoreLogCall(i, e)
    \/ \E i \in StoreIds : StoreLogLock(i)
    \/ \E i \in StoreIds, out \in SlotWriteOutcomes : StoreLogWriteEvent(i, out)
    \/ \E i \in StoreIds, out \in RingWriteOutcomes : StoreLogWriteRing(i, out)
    \/ \E i \in StoreIds : StoreLogCommit(i)
    \/ \E i \in StoreIds : StoreReturn(i)

SpecStores == InitStores /\ [][NextStores]_vars

----------------------------------------------------------------------------
(* GitHub-backed service: poll and List *)

\* The map a reference stands for; a nil map has no entries.
MapAt(h, r) == IF r = NoMap THEN EmptyMap ELSE h[r]

\* m[k] = v, and delete(m, k) for every k outside keep.
Put(m, k, v) == [x \in DOMAIN m \cup {k} |-> IF x = k THEN v ELSE m[x]]
Restrict(m, keep) == [x \in DOMAIN m \cap keep |-> m[x]]

\* m[k], the zero value when k is not a key.
Lookup(m, k, zero) == IF k \in DOMAIN m THEN m[k] ELSE zero

\* The references that the maps published by the service are reached by:
\* the service's fields and the copies of them a List call took.
Published(g, ls) ==
    ({g.repos, g.commits}
     \cup UNION {{ls[p].loc.repos, ls[p].loc.commits} : p \in Listers}) \ {NoMap}

\* All references in use, and the heap with the maps nothing refers to any
\* more given back.
RefsOf(g, pl, ls) == (Published(g, ls) \cup {pl.loc.repos, pl.loc.commits}) \ {NoMap}
Collect(h, g, pl, ls) ==
    [r \in Refs |-> IF r \in RefsOf(g, pl, ls) THEN h[r] ELSE EmptyMap]

\* make(map...): a reference not in use.
Fresh(used) == CHOOSE r \in Refs \ used : \A q \in Refs \ used : r <= q

\* What fetchModulePath and fetchCommit return for a repository and a commit.
repository(id) == [ModulePath |-> "example.org/" \o id]
commit(sha) == [SHA |-> sha, Message |-> "message of " \o sha]
ZeroRepository == [ModulePath |-> ""]
ZeroCommit == [SHA |-> "", Message |-> ""]

Range(s) == {s[k] : k \in 1..Len(s)}

\* The repo IDs and commit SHAs fetchEvents marks as used for events evs.
usedRepos(evs) == {evs[k].Repo : k \in 1..Len(evs)}
usedCommits(evs) ==
    UNION {Range(evs[k].SHAs) :
              k \in {j \in 1..Len(evs) :
                        evs[j].Type \in {"PushEvent", "CommitCommentEvent"}}}

\* fetchEvents' loop over the first n events of evs, on the maps m it was
\* given (repos, commits) and made (prs): the module path of a repository,
\* the commits of a push and of a commit comment and the merged flag of an
\* issue comment's pull request are fetched when the maps do not have them.
RECURSIVE fetchLoop(_, _, _, _)
fetchLoop(evs, n, m, merged) ==
    IF n = 0 THEN m
    ELSE LET prev == fetchLoop(evs, n - 1, m, merged)
             e == evs[n]
         IN  [repos |->
                  IF e.Repo \in DOMAIN prev.repos THEN prev.repos
                  ELSE Put(prev.repos, e.Repo, repository(e.Repo)),
              commits |->
                  IF e.Type \in {"PushEvent", "CommitCommentEvent"}
                  THEN [x \in DOMAIN prev.commits \cup Range(e.SHAs) |->
                           IF x \in DOMAIN prev.commits THEN prev.commits[x]
                           ELSE commit(x)]
                  ELSE prev.commits,
              prs |->
                  IF e.Type = "IssueCommentEvent" /\ e.PR # NoPR
                     /\ e.PR \notin DOMAIN prev.prs
                  THEN Put(prev.prs, e.PR, merged)
                  ELSE prev.prs]

\* convert of one event: the module path of its repository, the commits it
\* mentions and whether its pull request is merged, as the maps have them.
convertEvent(e, repos, commits, prs) ==
    [Type |-> e.Type,
     Container |-> Lookup(repos, e.Repo, ZeroRepository).ModulePath,
     Commits |-> [j \in 1..Len(e.SHAs) |-> Lookup(commits, e.SHAs[j], ZeroCommit)],
     Merged |-> IF e.PR = NoPR THEN FALSE ELSE Lookup(prs, e.PR, FALSE)]

\* convert: every event but those of unsupported types, converted.
convert(evs, repos, commits, prs) ==
    LET kept == SelectSeq(evs, LAMBDA e : e.Type # "MemberEvent")
    IN  [k \in 1..Len(kept) |-> convertEvent(kept[k], repos, commits, prs)]

\* PollCopy making the maps once and using the service's maps from then on.
PollCopyReuse ==
    /\ poll.pc = "copy"
    /\ IF gh.repos # NoMap
       THEN /\ poll' = [poll EXCEPT !.pc = "fetch", !.loc.repos = gh.repos,
                                    !.loc.commits = gh.commits]
            /\ UNCHANGED heap
       ELSE LET r == Fresh(RefsOf(gh, poll, lister))
                c == Fresh(RefsOf(gh, poll, lister) \cup {r})
            IN  /\ poll' = [poll EXCEPT !.pc = "fetch", !.loc.repos = r,
                                        !.loc.commits = c]
                /\ heap' = [heap EXCEPT ![r] = MapAt(heap, gh.repos),
                                        ![c] = MapAt(heap, gh.commits)]
    /\ UNCHANGED <<gh, lister, lastFetch, fsVars, storesVars>>

\* poll: under s.mu, new maps with the entries of s.repos and s.commits.
PollCopy ==
    /\ poll.pc = "copy"
    /\ LET r == Fresh(RefsOf(gh, poll, lister))
           c == Fresh(RefsOf(gh, poll, lister) \cup {r})
       IN  /\ poll' = [poll EXCEPT !.pc = "fetch", !.loc.repos = r,
                                   !.loc.commits = c]
           /\ heap' = [heap EXCEPT ![r] = MapAt(heap, gh.repos),
                                   ![c] = MapAt(heap, gh.commits)]
    /\ UNCHANGED <<gh, lister, lastFetch, fsVars, storesVars>>

\* poll: s.fetchEvents(ctx, repos, commits) with GitHub returning events
\* evs.  With err the call fails after its loop handled n events (the list
\* request when n = 0, else ParsePayload or a fetch for event n+1) and
\* returns nil for everything but the error; without, it handles all the
\* events, deletes the unused entries and returns the maps it was given.
PollFetch(evs, n, merged, err) ==
    /\ poll.pc = "fetch"
    /\ IF err THEN n < Len(evs) \/ evs = <<>> ELSE n = Len(evs)
    /\ LET m == fetchLoop(evs, n, [repos |-> heap[poll.loc.repos],
                                   commits |-> heap[poll.loc.commits],
                                   prs |-> EmptyMap], merged)
           pl == IF err
                 THEN [pc |-> "publish",
                       loc |-> [ZeroLocals EXCEPT !.fetchError = FetchError]]
                 ELSE [pc |-> "publish",
                       loc |-> [events |-> evs, repos |-> poll.loc.repos,
                                commits |-> poll.loc.commits, prs |-> m.prs,
                                fetchError |-> NilError]]
           h == IF err
                THEN [heap EXCEPT ![poll.loc.repos] = m.repos,
                                  ![poll.loc.commits] = m.commits]
                ELSE [heap EXCEPT
                         ![poll.loc.repos] = Restrict(m.repos, usedRepos(evs)),
                         ![poll.loc.commits] = Restrict(m.commits, usedCommits(evs))]
       IN  /\ poll' = pl
           /\ heap' = Collect(h, gh, pl, lister)
           /\ lastFetch' = IF err THEN [lastFetch EXCEPT !.fetchError = FetchError]
                           ELSE [events |-> evs, fetchError |-> NilError]
    /\ UNCHANGED <<gh, lister, fsVars, storesVars>>

\* PollPublish storing what fetchEvents returned whatever the error.
PollPublishAlways ==
    /\ poll.pc = "publish"
    /\ LET g == poll.loc
           pl == [pc |-> "sleep", loc |-> ZeroLocals]
       IN  /\ gh' = g
           /\ poll' = pl
           /\ heap' = Collect(heap, g, pl, lister)
    /\ UNCHANGED <<lister, lastFetch, fsVars, storesVars>>

\* poll: under s.mu, the fields are replaced when fetchError is nil, and
\* s.fetchError is set.
PollPublish ==
    /\ poll.pc = "publish"
    /\ LET g == IF poll.loc.fetchError = NilError THEN poll.loc
                ELSE [gh EXCEPT !.fetchError = poll.loc.fetchError]
           pl == [pc |-> "sleep", loc |-> ZeroLocals]
       IN  /\ gh' = g
           /\ poll' = pl
           /\ heap' = Collect(heap, g, pl, lister)
    /\ UNCHANGED <<lister, lastFetch, fsVars, storesVars>>

\* poll: time.Sleep(pollInterval), and the next iteration.
PollSleep ==
    /\ poll.pc = "sleep"
    /\ poll' = [poll EXCEPT !.pc = "copy"]
    /\ UNCHANGED <<gh, lister, heap, lastFetch, fsVars, storesVars>>

\* List: under s.mu, the copies of the five fields.
GitHubListCopy(p) ==
    /\ lister[p].pc = "idle"
    /\ lister' = [lister EXCEPT ![p].pc = "convert", ![p].loc = gh]
    /\ UNCHANGED <<gh, poll, heap, lastFetch, fsVars, storesVars>>

\* List: convert(ctx, events, repos, commits, prs, s.rtr) outside the lock.
GitHubListConvert(p) ==
    /\ lister[p].pc = "convert"
    /\ LET l == lister[p].loc
           ls == [lister EXCEPT
                     ![p].pc = "ret", ![p].loc = ZeroLocals,
                     ![p].ret = [events |-> convert(l.events, MapAt(heap, l.repos),
                                                    MapAt(heap, l.commits), l.prs),
                                 fetchError |-> l.fetchError]]
       IN  /\ lister' = ls
           /\ heap' = Collect(heap, gh, poll, ls)
    /\ UNCHANGED <<gh, poll, lastFetch, fsVars, storesVars>>

\* The caller receives List's return values.
GitHubListReturn(p) ==
    /\ lister[p].pc = "ret"
    /\ lister' = [lister EXCEPT ![p].pc = "idle", ![p].ret = NoListRet]
    /\ UNCHANGED <<gh, poll, heap, lastFetch, fsVars, storesVars>>

NextGitHub ==
    \/ PollCopy
    \/ \E evs \in Feeds, merged, err \in BOOLEAN :
          \E n \in 0..Len(evs) : PollFetch(evs, n, merged, err)
    \/ PollPublish
    \/ PollSleep
    \/ \E p \in Listers : GitHubListCopy(p)
    \/ \E p \in Listers : GitHubListConvert(p)
    \/ \E p \in Listers : GitHubListReturn(p)

SpecGitHub == Init /\ [][NextGitHub]_vars

----------------------------------------------------------------------------
(* Properties *)

Min(a, b) == IF a < b THEN a ELSE b

\* The List of a store that holds the history h: the last Min(Len(h),
\* ringSize) entries of h, last first.
ListAfter(h) == [i \in 1..Min(Len(h), ringSize) |-> h[Len(h) + 1 - i]]

\* The value List would return in the current state.
CurrentList == ListOf(ring, events)

\* C1: starting from an empty store, after k successful Logs List returns
\* exactly the last min(k, ringSize) logged events, last logged first.
C1_ListLastN ==
    (svc = "ready" /\ loadedLen = 0) =>
        /\ Len(CurrentList) = Min(Len(hist), ringSize)
        /\ CurrentList = ListAfter(hist)

\* C1 witness: more than ringSize events were logged into a store that
\* started empty, so the oldest ones are evicted.
C1_Witness ==
    /\ svc = "ready" /\ ncrash = 0 /\ loadedLen = 0
    /\ Len(hist) > ringSize
    /\ Len(CurrentList) = ringSize

\* C2: the i-th event of List is the i-th last logged event, whatever the
\* Time fields of the events are.
C2_ListByLogOrder ==
    svc = "ready" =>
        \A i \in 1..Len(CurrentList) : CurrentList[i] = hist[Len(hist) + 1 - i]

\* C2 witness: the events were logged with decreasing Time, and List has the
\* last logged one, with the earlier Time, first.
C2_Witness ==
    /\ svc = "ready" /\ ncrash = 0
    /\ Len(hist) >= 2
    /\ hist[Len(hist) - 1].Time.t > hist[Len(hist)].Time.t
    /\ Len(CurrentList) >= 2
    /\ CurrentList[1].Time.t < CurrentList[2].Time.t

\* The content Log writes into the event file for event e.
SlotOf(e) == OkSlot(MarshalJSON(fromEvent(e)))

\* C3: the ring file is written only by a Log whose event file already holds
\* its event, and the in-memory ring and events change only when the event
\* file and the ring file of the same Log are both written.
C3_SlotThenRingThenMemory ==
    [][/\ fsRing' # fsRing =>
            \E p \in Procs : /\ pc[p] = "writeRing"
                             /\ fsSlots[idx[p]] = SlotOf(ev[p])
                             /\ fsSlots' = fsSlots
                             /\ ring' = ring /\ events' = events
       /\ (svc = "ready" /\ svc' = "ready" /\ (ring' # ring \/ events' # events)) =>
            \E p \in Procs : /\ pc[p] = "commit"
                             /\ fsSlots[idx[p]] = SlotOf(ev[p])
                             /\ fsRing = OkRing(nring[p])
                             /\ ring' = nring[p]
                             /\ events' = [events EXCEPT ![idx[p]] = ev[p]]
                             /\ UNCHANGED <<fsDir, fsRing, fsSlots>>]_vars

\* C3 witness: a Log has written its event file and its ring file and has
\* not yet committed to memory.
C3_Witness ==
    \E p \in Procs : /\ pc[p] = "commit"
                     /\ fsSlots[idx[p]] = SlotOf(ev[p])
                     /\ fsRing = OkRing(nring[p])
                     /\ ring # nring[p]

\* What a store constructed from the files fring, fslots would return from
\* List, or the failure of its construction.
LoadedList(fring, fslots) ==
    LET l == load(fring, fslots)
    IN  [err |-> l.err, list |-> IF l.err THEN <<>> ELSE ListOf(l.ring, l.events)]

C5_FailedWriteNoEffect ==
    [][\A p \in Procs :
         /\ (pc[p] \in {"writeEvent", "writeRing"} /\ pc'[p] = "ret") =>
                /\ ret'[p] = RetErr(ErrIO)
                /\ mu' = NoProc
                /\ ring' = ring /\ events' = events
                /\ CurrentList' = CurrentList
         /\ (pc[p] \in {"writeEvent", "writeRing"} /\ svc' = "ready") =>
                (ring' = ring /\ events' = events)]_vars

\* C5 witness: a Log on a non-empty store has returned the failure of its
\* ring file write.
C5_Witness ==
    \E p \in Procs : /\ pc[p] = "ret"
                     /\ ret[p] = RetErr(ErrIO)
                     /\ fsRing.st = "corrupt"
                     /\ Len(CurrentList) > 0

\* C6: what a List returns is the List of the store after some prefix of the
\* Logs that completed successfully.
C6_ListSeesCommittedPrefix ==
    \A p \in Procs :
        ret[p].kind = "list" =>
            \E k \in loadedLen..Len(hist) : ret[p].list = ListAfter(SubSeq(hist, 1, k))

\* C6 witness: a List result is being returned while another goroutine's Log,
\* started before the List took the lock, is writing.
C6_Witness ==
    \E p, q \in Procs : /\ ret[p].kind = "list"
                        /\ Len(ret[p].list) > 0
                        /\ pc[q] \in {"writeEvent", "writeRing", "commit"}

LogCritical == {"writeEvent", "writeRing", "commit"}

\* C7: at most one Log is between Next and the commit to memory, a goroutine
\* at a statement that reads or writes the in-memory ring or events holds the
\* lock, and on a constructed store the in-memory ring and events change only
\* in the commit of the lock holder.
C7_LogsSerialized ==
    /\ [](/\ Cardinality({p \in Procs : pc[p] \in LogCritical}) <= 1
          /\ \A p \in Procs : pc[p] \in LogCritical \cup {"listCopy"} => mu = p)
    /\ [][(svc = "ready" /\ svc' = "ready" /\ (ring' # ring \/ events' # events)) =>
             (mu # NoProc /\ pc[mu] = "commit")]_vars

\* C7 witness: one Log is between its two writes while another Log waits for
\* the lock.
C7_Witness ==
    \E p, q \in Procs : p # q /\ pc[p] = "writeRing" /\ mu = p /\ pc[q] = "lock"

\* The step in which goroutine p calls Log.
LogCallStep(p) == pc[p] = "idle" /\ ev'[p] # ZeroEvent

\* C8 as claimed: a Log of an event of another actor returns nil and changes
\* neither the files nor the in-memory ring and events nor the value of List.
C8_OtherActorNoOp ==
    [][\A p \in Procs :
         (LogCallStep(p) /\ ev'[p].Actor.UserSpec # user.UserSpec) =>
             /\ pc'[p] = "ret" /\ ret'[p] = RetNil
             /\ UNCHANGED <<fsDir, fsRing, fsSlots, ring, events>>
             /\ CurrentList' = CurrentList]_vars

\* C8 as amended: the same for an event whose Time is in UTC.
C8_OtherActorUTCNoOp ==
    [][\A p \in Procs :
         (LogCallStep(p) /\ ev'[p].Actor.UserSpec # user.UserSpec
                         /\ ev'[p].Time.loc = "UTC") =>
             /\ pc'[p] = "ret" /\ ret'[p] = RetNil
             /\ UNCHANGED <<fsDir, fsRing, fsSlots, ring, events>>
             /\ CurrentList' = CurrentList]_vars

\* C8 witness: a Log of a UTC event of another actor is returning nil on a
\* non-empty store.
C8_Witness ==
    \E p \in Procs : /\ pc[p] = "ret"
                     /\ ev[p].Actor.UserSpec = UserSpec2
                     /\ ev[p].Time.loc = "UTC"
                     /\ ret[p] = RetNil
                     /\ Len(CurrentList) > 0

\* C9 as claimed: the actor check comes first, so a Log of an event of
\* another actor whose Time is not in UTC returns nil.
C9_ActorCheckFirst ==
    [][\A p \in Procs :
         (LogCallStep(p) /\ ev'[p].Actor.UserSpec # user.UserSpec
                         /\ ev'[p].Time.loc # "UTC") =>
             ret'[p] = RetNil]_vars

\* C9 as amended: the UTC check comes first, then the actor check, then the
\* authorization: an event of another actor whose Time is not in UTC gets the
\* UTC error, and an authorization error is returned only for a UTC event of
\* the store's actor.
C9_UTCCheckFirst ==
    [][\A p \in Procs :
         LogCallStep(p) =>
             /\ (ev'[p].Actor.UserSpec # user.UserSpec /\ ev'[p].Time.loc # "UTC") =>
                    ret'[p] = RetErr(ErrUTC)
             /\ ret'[p].kind \in {ErrAuth, ErrPermission} =>
                    (ev'[p].Time.loc = "UTC" /\ ev'[p].Actor.UserSpec = user.UserSpec)]_vars

\* C9 witness: a Log of a non-UTC event of another actor is returning the
\* UTC error.
C9_Witness ==
    \E p \in Procs : /\ pc[p] = "ret"
                     /\ ev[p].Actor.UserSpec = UserSpec2
                     /\ ev[p].Time.loc # "UTC"
                     /\ ret[p] = RetErr(ErrUTC)

\* C10: a Log of an event whose Time is not in UTC returns the UTC error and
\* changes neither the files nor the in-memory state.
C10_NonUTCRejected ==
    [][\A p \in Procs :
         (LogCallStep(p) /\ ev'[p].Time.loc # "UTC") =>
             /\ pc'[p] = "ret" /\ ret'[p] = RetErr(ErrUTC)
             /\ UNCHANGED <<fsDir, fsRing, fsSlots, ring, events, mu>>]_vars

\* C10 witness: a Log of a non-UTC event of the store's own user is returning
\* the UTC error on a non-empty store.
C10_Witness ==
    \E p \in Procs : /\ pc[p] = "ret"
                     /\ ev[p].Actor = user
                     /\ ev[p].Time.loc # "UTC"
                     /\ ret[p] = RetErr(ErrUTC)
                     /\ Len(CurrentList) > 0

----------------------------------------------------------------------------
\* C11: a Log of a UTC event that carries the owner's actor returns the
\* lookup error when GetAuthenticatedSpec fails, and os.ErrPermission when
\* the authenticated identity differs from the store's user; in both cases
\* Log returns at once, the files are untouched and List is unchanged.
C11_AuthFailureRejected ==
    [][\A p \in Procs :
          (/\ LogCallStep(p)
           /\ ev'[p].Time.loc = "UTC"
           /\ ev'[p].Actor.UserSpec = user.UserSpec
           /\ authenticated'[p].err \/ authenticated'[p].spec # user.UserSpec)
          => /\ authenticated'[p].called
             /\ ret'[p] = IF authenticated'[p].err THEN RetErr(ErrAuth)
                          ELSE RetErr(ErrPermission)
             /\ pc'[p] = "ret"
             /\ UNCHANGED <<fsDir, fsRing, fsSlots, ring, events, hist, nlogs>>
             /\ ListOf(ring', events') = ListOf(ring, events)]_vars

C11_Witness ==
    \E p, q \in Procs :
        /\ pc[p] = "ret" /\ ret[p] = RetErr(ErrPermission)
        /\ ev[p].Actor = user /\ ev[p].Time.loc = "UTC"
        /\ authenticated[p] = Called([err |-> FALSE, spec |-> UserSpec2])
        /\ pc[q] = "ret" /\ ret[q] = RetErr(ErrAuth)
        /\ ev[q].Actor = user /\ authenticated[q].err
        /\ Len(ListOf(ring, events)) > 0

----------------------------------------------------------------------------
\* A step of NewService: it is the only operation there is while no service
\* exists.
NewServiceStep == svc = "none"

\* C12: NewService writes nothing to the files, and the List of the store it
\* returns is what a further construction from the same files returns.
C12_LoadReadOnlyIdempotent ==
    [][NewServiceStep =>
          /\ UNCHANGED <<fsDir, fsRing, fsSlots>>
          /\ svc' = "ready" =>
                /\ ~LoadedList(fsRing', fsSlots').err
                /\ ListOf(ring', events') = LoadedList(fsRing', fsSlots').list
                /\ ListOf(ring', events') = LoadedList(fsRing, fsSlots).list]_vars

C12_Witness ==
    /\ svc = "ready" /\ newRes = "ok" /\ ncrash >= 1
    /\ loadedLen = ringSize
    /\ hist = Reverse(ListOf(ring, events))
    /\ Len(ListOf(ring, events)) = ringSize
    /\ \A p \in Procs : pc[p] = "idle"

\* C13: NewService over files without a ring file succeeds unless a read
\* fails for another reason, with the empty ring and an empty List; after
\* the first Log of a store so constructed List is exactly that one event.
C13_NoRingFileEmptyStore ==
    /\ [][NewServiceStep /\ fsRing.st = "absent" =>
              /\ newRes' \in {"ok", "errRead"}
              /\ newRes' = "ok" =>
                    /\ svc' = "ready"
                    /\ ring' = ZeroRing
                    /\ ListOf(ring', events') = <<>>]_vars
    /\ [](svc = "ready" /\ loadedLen = 0 =>
              /\ Len(hist) = 0 => ListOf(ring, events) = <<>>
              /\ Len(hist) = 1 => ListOf(ring, events) = <<hist[1]>>
              /\ \A p \in Procs :
                    pc[p] = "ret" /\ ret[p].kind = "list" /\ Len(hist) <= 1
                    => ret[p].list \in {<<>>, hist})

C13_Witness ==
    /\ svc = "ready" /\ loadedLen = 0 /\ Len(hist) = 1
    /\ \E p \in Procs : pc[p] = "ret" /\ ret[p] = RetList(<<hist[1]>>)

\* C14: NewService returns an error and no service when the ring file
\* cannot be read (other than because it does not exist) or a slot of the
\* ring's range is missing or fails to decode; while there is no service no
\* List or Log is running.
C14_NoPartialConstruction ==
    /\ [][NewServiceStep /\
             (\/ fsRing.st = "corrupt"
              \/ /\ fsRing.st = "ok"
                 /\ \E i \in LiveSlots(fsRing.val) :
                        fsSlots[i].st \in {"absent", "corrupt"})
           => svc' = "none" /\ newRes' \in {"errRead", "errLoad"}]_vars
    /\ [](newRes \in {"errRead", "errLoad"} => svc = "none")
    /\ [](svc = "none" =>
              /\ ring = ZeroRing /\ events = ZeroEvents /\ mu = NoProc
              /\ \A p \in Procs : pc[p] = "idle" /\ ret[p] = NoRet)

C14_Witness ==
    /\ svc = "none" /\ newRes = "errLoad"
    /\ fsRing.st = "ok" /\ fsRing.val.Length = ringSize
    /\ \E i \in LiveSlots(fsRing.val) : fsSlots[i].st = "corrupt"

----------------------------------------------------------------------------
\* C15: a Log in which a write step failed returns an error and does not
\* update the in-memory ring and events.  Failures of OpenFile, MkdirAll
\* and Encode end in LogFail; a failure of the deferred f.Close() is the
\* case recorded in closeFailed.
C15_WriteFailuresReturned ==
    \A p \in Procs :
        closeFailed[p] =>
            /\ pc[p] # "commit"
            /\ pc[p] = "ret" => ret[p] = RetErr(ErrIO)

----------------------------------------------------------------------------
\* The ring values of the ranges the type's comments give.
Rings == [Start : 0..(ringSize - 1), Length : 0..ringSize]

\* C16: the in-memory ring, the ring a Log in progress computed, and the
\* ring in the ring file all have Start in [0, ringSize-1] and Length in
\* [0, ringSize].
C16_RingInRange ==
    /\ ring \in Rings
    /\ \A p \in Procs : nring[p] \in Rings
    /\ fsRing.st = "ok" => fsRing.val \in Rings

C16_Witness ==
    /\ svc = "ready"
    /\ ring.Start > 0 /\ ring.Length = ringSize
    /\ fsRing = OkRing(ring)

\* What the claim says of Next applied to ring r with result n.
NextAdvances(r, n) ==
    /\ r.Length < ringSize =>
          n.ring.Length = r.Length + 1 /\ n.ring.Start = r.Start
    /\ r.Length = ringSize =>
          n.ring.Start = (r.Start + 1) % ringSize /\ n.ring.Length = ringSize
    /\ n.idx = (n.ring.Start + n.ring.Length - 1) % ringSize

\* C17: Next on a ring below capacity increments Length and keeps Start, on
\* a full ring it moves Start by one modulo ringSize and keeps Length, the
\* index is (Start' + Length' - 1) mod ringSize; the call in Log leaves
\* s.ring as it was.
C17_NextAdvance ==
    /\ [](\A r \in Rings : NextAdvances(r, ringNext(r)))
    /\ [][\A p \in Procs :
            pc[p] = "lock" /\ pc'[p] = "writeEvent" =>
                /\ NextAdvances(ring, [ring |-> nring'[p], idx |-> idx'[p]])
                /\ ring' = ring]_vars

C17_Witness ==
    \E p \in Procs :
        /\ pc[p] = "writeEvent"
        /\ ring.Length = ringSize
        /\ nring[p] = [Start |-> (ring.Start + 1) % ringSize, Length |-> ringSize]
        /\ idx[p] = ring.Start

----------------------------------------------------------------------------
\* The eventDisk values with a payload of one of the eleven types and valid
\* state values.
Disks ==
    {[Time |-> [t |-> t, loc |-> l], Container |-> c, Payload |-> p] :
        t \in 0..2, l \in Locations, c \in {"", "example.org/some-app"},
        p \in Payloads}

\* C18: decoding the encoding of an eventDisk with a payload of one of the
\* eleven types and valid states gives the same time, container and payload;
\* the eleven types have eleven distinct type tags, read back as the same
\* type; the state values and the tokens open, closed (and merged) map onto
\* each other one-to-one; and the record a Log has written decodes to the
\* logged event with the store's user as actor.
C18_CodecRoundTrip ==
    /\ \A d \in Disks : UnmarshalJSON(MarshalJSON(d)) = [err |-> FALSE, val |-> d]
    /\ \A v, w \in Variants :
          /\ TypeTag(v) # ""
          /\ TypeTag(v) = TypeTag(w) => v = w
          /\ TagVariant(TypeTag(v)) = v
    /\   (/\ \A st \in IssueStates :
               /\ fromIssueState(st) \in {"open", "closed"}
               /\ toIssueState(fromIssueState(st)) = st
          /\ \A tok \in {"open", "closed"} :
               /\ toIssueState(tok) \in IssueStates
               /\ fromIssueState(toIssueState(tok)) = tok
          /\ \A st \in ChangeStates :
               /\ fromChangeState(st) \in {"open", "closed", "merged"}
               /\ toChangeState(fromChangeState(st)) = st
          /\ \A tok \in {"open", "closed", "merged"} :
               /\ toChangeState(tok) \in ChangeStates
               /\ fromChangeState(toChangeState(tok)) = tok)
    /\ [][\A p \in Procs :
            pc[p] = "commit" /\ pc'[p] = "ret" /\ ev[p].Payload \in Payloads =>
                /\ ~jsonDecodeFile(fsSlots[idx[p]]).err
                /\ diskEvent(jsonDecodeFile(fsSlots[idx[p]]).val, user)
                      = [ev[p] EXCEPT !.Actor = user]]_vars

\* C18 witness: after a crash the store is constructed again and holds the
\* merged-change comment that was logged before.
C18_Witness ==
    /\ svc = "ready" /\ ncrash >= 1
    /\ \E i \in LiveSlots(ring) :
          /\ events[i] = [Event(1, "UTC", user) EXCEPT
                            !.Payload = Payload("ChangeComment", "state.ChangeMerged", "x")]
          /\ fsSlots[i] = OkSlot(MarshalJSON(fromEvent(events[i])))
          /\ fsSlots[i].val.Type = "changeComment"
          /\ fsSlots[i].val.Payload.state = "merged"

\* The eleven type tags.
KnownTags == {"issue", "change", "issueComment", "changeComment",
              "commitComment", "push", "star", "create", "fork", "delete",
              "wiki"}

\* A slot holding a record whose type tag is none of the eleven.
UnknownTagSlot(sl) ==
    sl.st = "ok" /\ sl.val.lit = "object" /\ sl.val.Type \notin KnownTags

\* C19: a record with a type tag that is none of the eleven decodes without
\* error to its time and container and a nil payload, whatever its payload
\* is; a construction whose ring's range holds only such slots succeeds
\* unless a read fails, and each such slot is loaded as that event.
C19_UnknownTagNoPayload ==
    /\   (\A tag \in {"", "unknown", "Star"},
             lit \in {"object", "null", "absent", "malformed"},
             d \in Disks :
               LET j == [MarshalJSON(d) EXCEPT !.Type = tag,
                                               !.Payload = JSONPayload(lit, "open", "x")]
               IN  UnmarshalJSON(j) =
                      [err |-> FALSE, val |-> [d EXCEPT !.Payload = NilPayload]])
    /\ [][NewServiceStep /\ fsRing.st = "ok" =>
            /\ (/\ \A i \in LiveSlots(fsRing.val) : UnknownTagSlot(fsSlots[i])
                /\ newRes' # "errRead"
                /\ newRes = "none")
               => newRes' = "ok"
            /\ \A i \in LiveSlots(fsRing.val) :
                  UnknownTagSlot(fsSlots[i]) /\ svc' = "ready" =>
                      events'[i] = [Time      |-> unmarshalTime(fsSlots[i].val.Time),
                                    Actor     |-> user,
                                    Container |-> fsSlots[i].val.Container,
                                    Payload   |-> NilPayload]]_vars

C19_Witness ==
    /\ svc = "ready" /\ newRes = "ok"
    /\ 0 \in LiveSlots(ring)
    /\ fsSlots[0] = OkSlot(UnknownTagJSON)
    /\ events[0] = [Event(1, "UTC", user) EXCEPT !.Payload = NilPayload]

\* A slot holding the JSON literal null, and one holding no bytes.
NullSlot(sl) == sl.st = "ok" /\ sl.val.lit = "null"
NoContentSlot(sl) == sl.st = "empty"

\* C20 as claimed: a construction whose ring's range holds slots that are
\* null or without content (and no other slots) succeeds unless a read
\* fails, and loads them as zero events.
C20_NullOrEmptySlotLoads ==
    [][NewServiceStep /\ fsRing.st = "ok" /\ newRes = "none" /\
         (\A i \in LiveSlots(fsRing.val) :
              NullSlot(fsSlots[i]) \/ NoContentSlot(fsSlots[i]))
       => \/ newRes' = "errRead"
          \/ /\ newRes' = "ok"
             /\ \A i \in LiveSlots(fsRing.val) :
                   events'[i] = diskEvent(ZeroDisk, user)]_vars

\* C20: a slot holding null decodes to the zero eventDisk without error, so
\* a construction whose ring's range holds only such slots succeeds unless
\* a read fails and loads the zero event with the store's user as actor; a
\* slot without content fails to decode, and a construction whose ring's
\* range includes one fails.
C20_NullSlotLoadsEmptyFails ==
    /\ UnmarshalJSON(NullJSON) = [err |-> FALSE, val |-> ZeroDisk]
    /\ jsonDecodeFile(EmptySlot).err
    /\ [][NewServiceStep /\ fsRing.st = "ok" /\ newRes = "none" =>
            /\ (\A i \in LiveSlots(fsRing.val) : NullSlot(fsSlots[i]))
               => \/ newRes' = "errRead"
                  \/ /\ newRes' = "ok"
                     /\ \A i \in LiveSlots(fsRing.val) :
                           events'[i] = diskEvent(ZeroDisk, user)
            /\ (\E i \in LiveSlots(fsRing.val) : NoContentSlot(fsSlots[i]))
               => newRes' \in {"errRead", "errLoad"} /\ svc' = "none"]_vars

C20_Witness ==
    /\ svc = "ready" /\ newRes = "ok"
    /\ LiveSlots(ring) = {0}
    /\ fsSlots[0] = OkSlot(NullJSON)
    /\ events[0] = [ZeroEvent EXCEPT !.Actor = user]
    /\ ListOf(ring, events) = <<[ZeroEvent EXCEPT !.Actor = user]>>

----------------------------------------------------------------------------
\* The steps of List by goroutine p.
ListStep(p) ==
    \/ pc[p] = "idle" /\ pc'[p] = "listCopy"
    \/ pc[p] = "listCopy" /\ pc'[p] = "ret"

\* C21: List changes neither the files nor the in-memory ring and events,
\* returns a list and never an error, and the list is what the in-memory
\* ring and events hold; these change only at the commit of a successful
\* Log, so Lists with no such commit between them return equal lists.
C21_ListReadOnly ==
    /\ [][\A p \in Procs :
            ListStep(p) =>
                /\ UNCHANGED <<fsDir, fsRing, fsSlots, ring, events, hist>>
                /\ pc'[p] = "ret" =>
                      ret'[p] = RetList(ListOf(ring, events))]_vars
    /\ [][(svc = "ready" /\ svc' = "ready" /\
            ListOf(ring', events') # ListOf(ring, events))
           => \E p \in Procs : /\ pc[p] = "commit" /\ pc'[p] = "ret"
                                /\ ret'[p] = RetNil]_vars

C21_Witness ==
    \E p, q \in Procs :
        /\ p # q
        /\ pc[p] = "ret" /\ pc[q] = "ret"
        /\ ret[p].kind = "list" /\ ret[q] = ret[p]
        /\ Len(ret[p].list) > 0
        /\ fsRing.st = "corrupt"

----------------------------------------------------------------------------
\* C22: the files written are the ring file and the event files of the
\* indexes 0 .. ringSize-1: the index of every Log is one of these, an event
\* file changes (and comes to exist) only in the event file write of a Log
\* with its index, the ring file only in a ring file write, and List has at
\* most ringSize events.
C22_StorageBounded ==
    /\ [](\A p \in Procs : pc[p] \in LogCritical => idx[p] \in Slots)
    /\ [](/\ Len(ListOf(ring, events)) <= ringSize
          /\ \A p \in Procs : Len(ret[p].list) <= ringSize)
    /\ [][/\ \A i \in Slots :
               fsSlots'[i] # fsSlots[i] =>
                   \E p \in Procs : pc[p] = "writeEvent" /\ idx[p] = i
          /\ fsRing' # fsRing => \E p \in Procs : pc[p] = "writeRing"
          /\ fsDir' # fsDir => \E p \in Procs : pc[p] = "writeEvent"]_vars

C22_Witness ==
    /\ \A i \in Slots : fsSlots[i].st = "ok"
    /\ Len(hist) > ringSize
    /\ Len(ListOf(ring, events)) = ringSize
    /\ \E p \in Procs : pc[p] = "ret" /\ ret[p].kind = "list"
                         /\ Len(ret[p].list) = ringSize

----------------------------------------------------------------------------
\* C23: every slot of the range of the ring in the ring file exists, in
\* every state: between the two writes of a Log, after a failed write and
\* after a crash; so a construction never finds a slot of the range
\* missing.
C23_LiveSlotsExist ==
    fsRing.st = "ok" =>
        \A i \in LiveSlots(fsRing.val) : fsSlots[i].st # "absent"

\* C23 witness: after a crash in a Log on a full ring whose event file
\* write failed, the slots of the range all exist.
C23_Witness ==
    /\ svc = "none" /\ ncrash >= 1
    /\ fsRing.st = "ok" /\ fsRing.val.Length = ringSize
    /\ \E i \in LiveSlots(fsRing.val) : fsSlots[i].st = "corrupt"
    /\ \A i \in LiveSlots(fsRing.val) : fsSlots[i].st # "absent"

----------------------------------------------------------------------------
\* C24: when every Log has succeeded and none is between its writes and its
\* commit, a store constructed from the files returns the List that the
\* running store returns: the same events, actors included, in the same
\* order.
C24_ReloadSameList ==
    svc = "ready" /\ mu = NoProc =>
        LoadedList(fsRing, fsSlots) = [err |-> FALSE, list |-> ListOf(ring, events)]

----------------------------------------------------------------------------
\* C25: the logical positions 0 .. Length-1 of the in-memory ring are
\* mapped by At to pairwise distinct slots, and the event at position i is
\* the (i+1)-th oldest of the retained events, which are the last Length
\* events of the history of loaded and logged events.
C25_PositionsDistinctOldestFirst ==
    svc = "ready" =>
        /\ ring.Length <= Len(hist)
        /\ \A i, j \in 0..(ring.Length - 1) :
              i # j => At(ring, i) # At(ring, j)
        /\ \A i \in 0..(ring.Length - 1) :
              /\ At(ring, i) \in Slots
              /\ events[At(ring, i)] = hist[Len(hist) - ring.Length + 1 + i]

C25_Witness ==
    /\ svc = "ready"
    /\ ring.Length = ringSize /\ ring.Start > 0
    /\ Len(hist) > ringSize
    /\ events[At(ring, 0)] # events[At(ring, ringSize - 1)]
    /\ events[ring.Start] = hist[Len(hist) - ringSize + 1]

----------------------------------------------------------------------------
\* C26: the event file write of a Log changes no slot but the one of its
\* index; on a ring below capacity that slot is outside the ring's range, on
\* a full ring it is the slot of the oldest retained event; the Length of
\* the in-memory ring never decreases and its Start is 0 while the ring is
\* not full.
C26_WriteTargetsFreeOrOldest ==
    /\ [][\A p \in Procs :
            pc[p] = "writeEvent" =>
                /\ pc'[p] # "writeEvent" =>
                      \A i \in Slots : fsSlots'[i] # fsSlots[i] => i = idx[p]
                /\ ring.Length < ringSize => idx[p] \notin LiveSlots(ring)
                /\ ring.Length = ringSize => idx[p] = At(ring, 0)]_vars
    /\ [][svc = "ready" /\ svc' = "ready" => ring'.Length >= ring.Length]_vars
    /\ [](svc = "ready" /\ ring.Length < ringSize => ring.Start = 0)

\* C26 witness: a Log on a full ring has written its event to the slot of
\* the oldest retained event, which the in-memory events still hold.
C26_Witness ==
    \E p \in Procs :
        /\ pc[p] = "writeRing"
        /\ ring.Length = ringSize
        /\ idx[p] = At(ring, 0)
        /\ fsSlots[idx[p]] = SlotOf(ev[p])
        /\ events[idx[p]] = hist[Len(hist) - ringSize + 1]
        /\ SlotOf(events[idx[p]]) # fsSlots[idx[p]]

----------------------------------------------------------------------------
\* C27: in every state of a constructed store the in-memory ring is the
\* ring in the ring file (the empty ring when there is no ring file), except
\* in a Log between its ring file write and its commit, where the ring in
\* the ring file is Next of the in-memory ring.
C27_MemoryRingIsDurableRing ==
    svc = "ready" =>
        IF \E p \in Procs : pc[p] = "commit"
        THEN fsRing = OkRing(ringNext(ring).ring)
        ELSE \/ fsRing = OkRing(ring)
             \/ fsRing = AbsentRing /\ ring = ZeroRing

----------------------------------------------------------------------------
\* C28: every Log that commits, whatever other Logs run at the same time,
\* commits the ring that Next gives for the in-memory ring of that moment
\* and puts its event at the index Next gives, so the ring advances once
\* for each Log and no Log takes the position of another; while no more
\* than ringSize events were logged, List holds each logged event once, the
\* last logged first.
C28_NoLostUpdate ==
    /\ [][\A p \in Procs :
            pc[p] = "commit" /\ pc'[p] = "ret" =>
                /\ nring[p] = ringNext(ring).ring
                /\ idx[p] = ringNext(ring).idx
                /\ ring' = ringNext(ring).ring
                /\ events' = [events EXCEPT ![idx[p]] = ev[p]]
                /\ ring.Length < ringSize =>
                      ListOf(ring', events') = <<ev[p]>> \o ListOf(ring, events)]_vars
    /\ [](svc = "ready" /\ Len(hist) <= ringSize =>
              /\ Len(ListOf(ring, events)) = Len(hist)
              /\ ListOf(ring, events) = Reverse(hist))

\* C28 witness: one goroutine's Log is about to commit at the position
\* after the one event logged before, while the other goroutine's Log waits
\* for the lock.
C28_Witness ==
    \E p, q \in Procs :
        /\ p # q
        /\ pc[p] = "commit" /\ mu = p
        /\ pc[q] = "lock"
        /\ loadedLen = 0 /\ Len(hist) = 1
        /\ ring.Length = 1 /\ idx[p] = 1
        /\ ListOf(ring, events) = Reverse(hist)

----------------------------------------------------------------------------
\* C29: a Log that fails at its event file write or its ring file write on
\* a ring below capacity leaves the in-memory ring and events as they were,
\* so that Next gives the following Log the index the failed Log had; every
\* Log takes the index Next gives for the in-memory ring; and List holds
\* committed events only, the last ringSize of them.
C29_FailedLogLeavesNoTrace ==
    /\ [][\A p \in Procs :
            (/\ pc[p] \in {"writeEvent", "writeRing"}
             /\ pc'[p] = "ret"
             /\ ring.Length < ringSize)
            => /\ ret'[p] = RetErr(ErrIO)
               /\ ring' = ring /\ events' = events /\ hist' = hist
               /\ ringNext(ring').idx = idx[p]]_vars
    /\ [][\A q \in Procs :
            pc[q] = "lock" /\ pc'[q] = "writeEvent" =>
                idx'[q] = ringNext(ring).idx]_vars
    /\ [](svc = "ready" => ListOf(ring, events) = ListAfter(hist))

\* C29 witness: on a ring below capacity that holds an event, the other
\* goroutine's Log has failed, leaving its slot truncated, and this Log has
\* been given the index of that slot; List holds the one committed event.
C29_Witness ==
    \E p \in Procs :
        /\ pc[p] = "writeEvent"
        /\ ring.Length < ringSize /\ Len(hist) >= 1
        /\ idx[p] = ring.Length
        /\ fsSlots[idx[p]].st = "corrupt"
        /\ \E q \in Procs : q # p /\ pc[q] = "ret" /\ ret[q] = RetErr(ErrIO)
        /\ ListOf(ring, events) = <<hist[1]>>

----------------------------------------------------------------------------
\* C30: every event of List, in memory and in the results returned, has an
\* Actor whose UserSpec is the UserSpec of the store's user, after any
\* Logs and after a reload; the events a construction loads have the
\* store's user as their Actor.
C30_SingleTenancy ==
    /\ [](svc = "ready" =>
              /\ \A k \in 1..Len(ListOf(ring, events)) :
                    ListOf(ring, events)[k].Actor.UserSpec = user.UserSpec
              /\ \A p \in Procs : \A k \in 1..Len(ret[p].list) :
                    ret[p].list[k].Actor.UserSpec = user.UserSpec)
    /\ [][NewServiceStep /\ svc' = "ready" =>
            \A i \in LiveSlots(ring') : events'[i].Actor = user]_vars

\* C30 witness: after a reload and a further Log, List holds a loaded event
\* with the store's user as Actor and a logged one with another Login.
C30_Witness ==
    /\ svc = "ready" /\ ncrash >= 1 /\ loadedLen >= 1
    /\ \E i, j \in LiveSlots(ring) :
          events[i].Actor = user /\ events[j].Actor = userOtherLogin
    /\ \E p \in Procs : pc[p] = "ret" /\ ret[p] = RetList(ListOf(ring, events))

\* C33: storage is created lazily.  The user's directory is created by the
\* slot write of a Log and by nothing else, a slot write that does not fail
\* leaves the directory and the slot file in place, and because the slot
\* write comes before the ring write, the ring file is only ever written,
\* and a Log only ever stands before its ring write, with the directory in
\* existence: the ring write never fails for lack of its parent.
C33_LazyCreation ==
    /\ [](\A p \in Procs : pc[p] = "writeRing" => fsDir)
    /\ [][fsRing' # fsRing => fsDir]_vars
    /\ [][\A p \in Procs :
            pc[p] = "writeEvent" /\ pc'[p] = "writeRing"
                => fsDir' /\ fsSlots'[idx[p]].st = "ok"]_vars
    /\ [][~fsDir /\ fsDir' => \E p \in Procs : pc[p] = "writeEvent"]_vars

\* The first Log to reach storage, on a filesystem without the directory,
\* has returned nil: directory, slot 0 and ring file exist.
C33_Witness ==
    /\ nlogs = 1
    /\ loadedLen = 0
    /\ Len(hist) = 1
    /\ fsDir
    /\ fsRing = OkRing([Start |-> 0, Length |-> 1])
    /\ fsSlots[0].st = "ok"
    /\ \E p \in Procs : ret[p] = RetNil /\ pc[p] = "ret"

C35_LoadedRingInRange ==
    svc = "ready" =>
        /\ ring.Start \in 0..(ringSize - 1)
        /\ ring.Length \in 0..ringSize
        /\ Len(ListOf(ring, events)) <= ringSize

C31_StoresIndependent ==
    [][\A i, j \in StoreIds :
          (/\ i # j
           /\ stores[i].user.UserSpec # stores[j].user.UserSpec
           /\ stores'[i] # stores[i])
              => /\ \A f \in PathsOf(stores[j].user.UserSpec) : root'[f] = root[f]
                 /\ StoreList(stores'[j]) = StoreList(stores[j])
                 /\ StoreLoadedList(root', stores[j].user)
                        = StoreLoadedList(root, stores[j].user)]_vars

\* Store A of user 1@example.org and store B of user 2@example.org have
\* each stored an event, and A has left a truncated file behind as well; B
\* and a reload of B list B's event.
C31_Witness ==
    /\ stores["B"].user = otherUser
    /\ stores["A"].logged = 1
    /\ stores["B"].logged = 1
    /\ stores["A"].nlogs = 2
    /\ \E f \in PathsOf(user.UserSpec) : root[f].st = "corrupt"
    /\ Len(StoreList(stores["B"])) = 1
    /\ StoreLoadedList(root, otherUser) = StoreList(stores["B"])

\* C32: two stores for the same identity over the same location are not
\* serialized with each other.  When both were constructed over the empty
\* location and each has made one Log, which returned nil, the ring file
\* holds Length 1 and a store constructed afterwards lists one event: fewer
\* than the two successful Logs.
C32_TwoStoresLoseAnEvent ==
    (\A i \in StoreIds :
        /\ stores[i].user = user
        /\ stores[i].svc = "ready"
        /\ stores[i].loaded = 0
        /\ stores[i].nlogs = 1
        /\ stores[i].logged = 1)
    => /\ ringFile(root, user) = OkRing([Start |-> 0, Length |-> 1])
       /\ ~storeLoad(root, user).err
       /\ Len(StoreLoadedList(root, user))
              < stores["A"].logged + stores["B"].logged

\* Both stores of user have returned nil from their one Log, of different
\* events, and a store constructed now lists only the event of B.
C32_Witness ==
    /\ \A i \in StoreIds :
          /\ stores[i].user = user
          /\ stores[i].loaded = 0
          /\ stores[i].nlogs = 1
          /\ stores[i].logged = 1
          /\ stores[i].pc = "ret"
          /\ stores[i].ret = RetNil
    /\ StoreList(stores["A"]) = <<Event(1, "UTC", user)>>
    /\ StoreList(stores["B"]) = <<Event(2, "UTC", user)>>
    /\ StoreLoadedList(root, user) = <<Event(2, "UTC", user)>>

\* What convert returns for events evs when the maps hold what GitHub has
\* for every repository and every commit.
Converted(evs, prs) ==
    convert(evs, [id \in RepoIDs |-> repository(id)],
            [sha \in SHAs |-> commit(sha)], prs)

\* C37: in the GitHub-backed service a failed poll keeps the events of the
\* last successful poll and records the error, and a successful poll
\* replaces the events and clears the error.  Once poll has stored the
\* result of its fetch, the service holds the events of the last fetch that
\* succeeded and the error (or nil) of the last fetch; and List returns the
\* conversion of the events, with the error, that the service held when
\* List copied them.
C37_ListReturnsLastFetch ==
    /\ [](poll.pc # "publish" =>
            /\ gh.events = lastFetch.events
            /\ gh.fetchError = lastFetch.fetchError)
    /\ [][poll.pc = "publish" /\ poll'.pc # "publish" =>
            /\ gh'.fetchError = poll.loc.fetchError
            /\ poll.loc.fetchError # NilError =>
                  /\ gh'.events = gh.events
                  /\ Converted(gh'.events, gh'.prs) = Converted(gh.events, gh.prs)
            /\ poll.loc.fetchError = NilError => gh'.events = poll.loc.events]_vars
    /\ [][\A p \in Listers :
            lister[p].pc = "idle" /\ lister'[p].pc = "convert" =>
                /\ lister'[p].loc.events = gh.events
                /\ lister'[p].loc.fetchError = gh.fetchError]_vars
    /\ [][\A p \in Listers :
            lister[p].pc = "convert" /\ lister'[p].pc = "ret" =>
                lister'[p].ret =
                    [events |-> Converted(lister[p].loc.events, lister[p].loc.prs),
                     fetchError |-> lister[p].loc.fetchError]]_vars

\* After a fetch that succeeded and one that failed, List has returned the
\* conversion of the events of the first with the error of the second.
C37_Witness ==
    /\ poll.pc = "sleep"
    /\ lastFetch.fetchError = FetchError
    /\ Len(lastFetch.events) = 2
    /\ \E p \in Listers :
          /\ lister[p].pc = "ret"
          /\ lister[p].ret.fetchError = FetchError
          /\ lister[p].ret.events = Converted(lastFetch.events, gh.prs)
          /\ lister[p].ret.events[2].Commits = <<commit("c1")>>

\* C38: the repos and commits maps reached from the service's fields, and
\* from the copies of them a List took, are never changed in place.  No
\* step changes the entries of a map that is published before and after
\* it; the maps poll passes to fetchEvents are neither published nor one
\* and the same; the fields change only in poll's storing step, the maps
\* only when the fetch succeeded; and the published maps have only entries
\* that the service's events use.
C38_PublishedMapsImmutable ==
    /\ [][\A r \in Published(gh, lister) \cap Published(gh', lister') :
            heap'[r] = heap[r]]_vars
    /\ [](poll.pc = "fetch" =>
            /\ poll.loc.repos \in Refs \ Published(gh, lister)
            /\ poll.loc.commits \in Refs \ Published(gh, lister)
            /\ poll.loc.repos # poll.loc.commits)
    /\ [][gh' # gh => poll.pc = "publish"]_vars
    /\ [][gh'.repos # gh.repos \/ gh'.commits # gh.commits =>
            poll.loc.fetchError = NilError]_vars
    /\ [](/\ DOMAIN MapAt(heap, gh.repos) \subseteq usedRepos(gh.events)
          /\ DOMAIN MapAt(heap, gh.commits) \subseteq usedCommits(gh.events))

\* A List holds copies of the service's former maps and has not converted
\* yet, while poll, after a later successful fetch that uses other entries,
\* has published new maps and stands in the next fetch with its own.
C38_Witness ==
    \E p \in Listers :
        /\ lister[p].pc = "convert"
        /\ lister[p].loc.repos # NoMap
        /\ lister[p].loc.repos # gh.repos
        /\ gh.repos # NoMap
        /\ DOMAIN heap[lister[p].loc.repos] = {"id1"}
        /\ DOMAIN heap[gh.repos] = {"id2"}
        /\ poll.pc = "fetch"
        /\ poll.loc.repos \notin {gh.repos, lister[p].loc.repos}
====
